---- MODULE Spec2Model ----
(***************************************************************************)
(* Model of the market-universe sampling scheduler,                        *)
(* src/src/collector/universe_raw_collector.py (class UniverseRawCollector)*)
(*                                                                         *)
(* Units: spreads are held in hundredths of a basis point (the code holds  *)
(* them as floats in basis points), so 29.99 bps is 2999 and the threshold *)
(* "spread_bps > 30" is "spread > 3000".  A missing value (Python's None)  *)
(* of a bid, an ask or a spread is the value None.                         *)
(***************************************************************************)
EXTENDS Integers, Sequences, FiniteSets, TLC

VARIABLES
    markets,             \* self.markets: the discovered catalog, in discovery order
    schedules,           \* self.schedules: symbol_raw -> MarketSchedule (a dict: partial)
    promotion_counters,  \* self.promotion_counters (defaultdict(int): 0 when absent)
    demotion_counters,   \* self.demotion_counters  (defaultdict(int): 0 when absent)
    rankings,            \* self.rankings: symbol_raw -> MarketRanking (a dict: partial)
    promotions_this_cycle, \* the list of that name built by the last hysteresis pass
    demotions_this_cycle,  \* the list of that name built by the last hysteresis pass
    refresh_outcome,     \* which branch the last _refresh_rankings took
    eligible_run,        \* history: consecutive ranked cycles satisfying line 411
    demotable_run,       \* history: consecutive ranked cycles satisfying lines 436/440
    run_pc,                  \* where run() stands
    stop_event,          \* self.stop_event
    duration_over,       \* run()'s duration bound (if one was given) has been reached
    buffer,              \* self.buffer
    batch,               \* flush_buffer's local "samples": the swapped-out batch
    store,               \* the rows of the MarketSample table, in commit order
    tasks,               \* the collect_sample tasks of the current tick (gather)
    skipped_spread_gt_30,\* self.metrics.skipped_spread_gt_30
    ticks,               \* number of loop iterations started
    flush_caller,        \* who awaits flush_buffer: the tick or the finally block
    finally_steps,       \* the steps of the finally block done so far
    appended,            \* history: every sample add_to_buffer was called with
    fetch_raised,        \* history: the (tick, symbol) whose fetch or parse raised
    requeued,            \* history: every sample a failed flush put back
    flush_outcome,       \* history: how the last flush_buffer call ended
    loop_raised,         \* history: an exception left the body of the main loop
    clock_ms,            \* the clock at its last reading, in ms (since the run began;
                         \* since the epoch, as time.time() counts, in SpecRefresh)
    due_markets,         \* what the last _get_markets_due_for_sampling returned
    latest_samples,      \* _calculate_rankings: the rows its query returned
    calc_rankings,       \* _calculate_rankings: the map it returned
    calc_outcome,        \* _calculate_rankings: how its last call ended
    stable_cycles,       \* history: cycles run since the computed ranking stopped changing
    fallback_active,     \* history (SpecFallback): the pass's local of that name at its end
    spot_meta,           \* what fetch_spot_meta_and_asset_ctxs does when discovery calls it
    perp_meta,           \* what fetch_perp_meta_and_asset_ctxs does when discovery calls it
    discover_outcome,    \* how the last discover_markets call ended
    last_cleanup_time,   \* self.last_cleanup_time, in ms since the construction
    cleanup_outcome,     \* how the last cleanup_old_data call ended
    cleanup_deleted,     \* cleanup_old_data's local "deleted" in its last pass
    busy_reads,          \* the read attempts the store will still reject as busy
    db_rows_24h,         \* what the last get_db_rows_24h call returned
    count_outcome,       \* how the last get_db_rows_24h call ended
    buffer_lock,         \* self.buffer_lock: free, or held by the coroutine at lock_pc
    lock_pc,             \* where the coroutine stands inside add_to_buffer / flush_buffer
    func_outcomes,       \* _retry_on_lock: what func() does at its 1st, 2nd, 3rd call
    attempt,             \* _retry_on_lock: the loop variable of that name
    calls,               \* history: how many times _retry_on_lock has called func()
    slept,               \* history: the delays _retry_on_lock has slept, in ms
    retry_outcome,       \* _retry_on_lock: running, returned or raised
    retry_result,        \* _retry_on_lock: the value it returned or the error it raised
    last_ranking_time,   \* self.last_ranking_time, in ms on the scale of clock_ms
    refresh_times        \* history: the clock at each _refresh_rankings call of run()

levelVars == <<schedules, promotion_counters, demotion_counters, rankings,
               promotions_this_cycle, demotions_this_cycle,
               refresh_outcome, eligible_run, demotable_run>>

runVars == <<run_pc, stop_event, duration_over, buffer, batch, store, tasks,
             skipped_spread_gt_30,
             ticks, flush_caller, finally_steps, appended, fetch_raised,
             requeued, flush_outcome, loop_raised>>

schedVars == <<clock_ms, due_markets>>

rankVars == <<latest_samples, calc_rankings, calc_outcome>>

storageVars == <<last_cleanup_time, cleanup_outcome, cleanup_deleted, busy_reads,
                 db_rows_24h, count_outcome>>

refreshVars == <<last_ranking_time, refresh_times>>

retryVars == <<func_outcomes, attempt, calls, slept, retry_outcome, retry_result>>

auxVars == <<stable_cycles, fallback_active, spot_meta, perp_meta, discover_outcome,
             storageVars, buffer_lock, lock_pc, retryVars, refreshVars>>

vars == <<markets, levelVars, runVars, schedVars, rankVars, auxVars>>

-----------------------------------------------------------------------------
(* Program constants *)

LEVEL_A_INTERVAL_MS == 250
LEVEL_B_INTERVAL_MS == 2000
LEVEL_C_INTERVAL_MS == 2000
LEVEL_D_INTERVAL_MS == 2000

SPREAD_BPS_IGNORE_THRESHOLD == 30
SPREAD_BPS_NO_A_THRESHOLD == 15

SAFETY_ASSETS == {"BTC", "ETH", "SOL"}

\* the value None of an Optional[float] (bid, ask, spread_bps)
None == -1

\* n basis points in the model's unit (hundredths of a basis point)
CentiBps(n) == n * 100

-----------------------------------------------------------------------------
(* The catalog the model runs on: one safety asset (a perp) and one other   *)
(* market (a spot pair).                                                    *)

MarketInfo(base, market_type, symbol_raw) ==
    [base |-> base, market_type |-> market_type, symbol_raw |-> symbol_raw]

Catalog == << MarketInfo("BTC", "PERP", "BTC"),
              MarketInfo("PURR", "SPOT", "PURR/USDC") >>

Symbols == { Catalog[i].symbol_raw : i \in 1..Len(Catalog) }

MarketSchedule(level, next_due_ms, interval_ms) ==
    [level |-> level, next_due_ms |-> next_due_ms, interval_ms |-> interval_ms]

MarketRanking(rank, spread_bps) ==
    [rank |-> rank, spread_bps |-> spread_bps]

EmptyDict == [s \in {} |-> 0]

-----------------------------------------------------------------------------
(* Level state machine *)

GetIntervalIgnoringLevel(level) == LEVEL_D_INTERVAL_MS

GetIntervalForLevel(level) ==
    IF level = "A" THEN LEVEL_A_INTERVAL_MS
    ELSE IF level = "B" THEN LEVEL_B_INTERVAL_MS
    ELSE IF level = "C" THEN LEVEL_C_INTERVAL_MS
    ELSE LEVEL_D_INTERVAL_MS

\* a direct mapping that looks at the rank only
AssignLevelByRankOnly(rank, spread_bps) ==
    IF rank <= 100 THEN "A"
    ELSE IF rank <= 200 THEN "B"
    ELSE IF rank <= 300 THEN "C"
    ELSE "D"

AssignLevelFromRank(rank, spread_bps) ==
    IF spread_bps # None /\ spread_bps > CentiBps(SPREAD_BPS_NO_A_THRESHOLD)
            /\ rank <= 100
        THEN "B"
    ELSE IF spread_bps = None /\ rank <= 100
        THEN "B"
    ELSE IF rank <= 100 THEN "A"
    ELSE IF rank <= 200 THEN "B"
    ELSE IF rank <= 300 THEN "C"
    ELSE IF rank <= 400 THEN "D"
    ELSE "D"

\* a promotion condition that does not look at the spread
PromotionConditionAnySpread(rank, spread_bps) == rank <= 100

\* line 411: the condition that increments the promotion counter
PromotionCondition(rank, spread_bps) ==
    rank <= 100
    /\ (spread_bps = None \/ spread_bps <= CentiBps(SPREAD_BPS_NO_A_THRESHOLD))

\* a demotion condition that starts at a spread of 10 bps
DemotionConditionAbove10Bps(rank, spread_bps) ==
    rank > 120 \/ (spread_bps # None /\ spread_bps > CentiBps(10))

\* lines 436 and 440: the conditions that increment the demotion counter
DemotionCondition(rank, spread_bps) ==
    rank > 120 \/ (spread_bps # None /\ spread_bps > CentiBps(20))

\* line 413: the promotion streak that commits the promotion
PromotionCommits(count) == count >= 3

\* a demotion committed one cycle early
DemotionCommitsAfterTwo(count) == count >= 2

\* lines 438 and 442: the demotion streak that commits the demotion
DemotionCommits(count) == count >= 3

\* line 405: the level the loop body works from
CurrentLevel(sch, s) ==
    IF s \in DOMAIN sch THEN sch[s].level ELSE "D"

\* One iteration of the loop of _update_levels_with_hysteresis, for the
\* ranked symbol s: whether self.schedules[s] is assigned, the value
\* assigned, and the two counters of s afterwards.
HysteresisEntry(s, rk, sch, pc, dc) ==
    LET current_level == CurrentLevel(sch, s)
        rank == rk[s].rank
        spread_bps == rk[s].spread_bps
        keep == [assigned |-> FALSE, schedule |-> MarketSchedule("D", 0, 0),
                 promo |-> pc[s], demo |-> dc[s],
                 promoted |-> FALSE, demoted |-> FALSE]
    IN  IF current_level # "A" THEN
            IF PromotionCondition(rank, spread_bps) THEN
                IF PromotionCommits(pc[s] + 1)
                    THEN [assigned |-> TRUE,
                          schedule |-> MarketSchedule("A", 0, LEVEL_A_INTERVAL_MS),
                          promo |-> 0, demo |-> dc[s],
                          promoted |-> TRUE, demoted |-> FALSE]
                    ELSE [keep EXCEPT !.promo = pc[s] + 1]
            ELSE [keep EXCEPT !.promo = 0]
        ELSE IF current_level = "A" THEN
            IF DemotionCondition(rank, spread_bps) THEN
                IF DemotionCommits(dc[s] + 1)
                    THEN LET new_level == AssignLevelFromRank(rank, spread_bps)
                         IN [assigned |-> TRUE,
                             schedule |-> MarketSchedule(new_level, 0,
                                              GetIntervalForLevel(new_level)),
                             promo |-> pc[s], demo |-> 0,
                             promoted |-> FALSE, demoted |-> new_level # "A"]
                    ELSE [keep EXCEPT !.demo = dc[s] + 1]
            ELSE [keep EXCEPT !.demo = 0]
        ELSE \* lines 465-477: never taken, the two tests above are exhaustive
            LET new_level == AssignLevelFromRank(rank, spread_bps)
            IN [keep EXCEPT !.assigned = TRUE,
                            !.schedule = MarketSchedule(new_level, 0,
                                             GetIntervalForLevel(new_level))]

\* a pass that resets the counters of the markets it does not visit
CounterOfUnrankedReset(count) == 0

\* line 404: the loop visits the ranked symbols only; the counter of any
\* other symbol is not touched
CounterOfUnranked(count) == count

UpdateLevelsWithHysteresis(rk, sch, pc, dc) ==
    LET e == [s \in DOMAIN rk |-> HysteresisEntry(s, rk, sch, pc, dc)]
        assigned == {s \in DOMAIN rk : e[s].assigned}
    IN  [schedules |-> [s \in (DOMAIN sch) \cup assigned |->
                            IF s \in assigned THEN e[s].schedule ELSE sch[s]],
         promotion_counters |-> [s \in DOMAIN pc |->
                            IF s \in DOMAIN rk THEN e[s].promo
                            ELSE CounterOfUnranked(pc[s])],
         demotion_counters |-> [s \in DOMAIN dc |->
                            IF s \in DOMAIN rk THEN e[s].demo
                            ELSE CounterOfUnranked(dc[s])],
         promotions_this_cycle |-> {s \in DOMAIN rk : e[s].promoted},
         demotions_this_cycle |-> {s \in DOMAIN rk : e[s].demoted}]

\* the symbols of the catalog markets whose base is a safety asset
SafetySymbols(mk) ==
    { mk[i].symbol_raw : i \in {j \in 1..Len(mk) : mk[j].base \in SAFETY_ASSETS} }

\* a floor applied to every market, whatever its base
ApplyFallbackToEveryMarket(rk, sch, mk) ==
    [s \in DOMAIN sch |->
        IF sch[s].level \notin {"A", "B"}
            THEN MarketSchedule("B", 0, LEVEL_B_INTERVAL_MS)
            ELSE sch[s]]

\* a floor that lifts the safety assets to A
ApplyFallbackForcingA(rk, sch, mk) ==
    [s \in DOMAIN sch |->
        IF s \in SafetySymbols(mk) /\ sch[s].level \notin {"A", "B"}
            THEN MarketSchedule("A", 0, LEVEL_A_INTERVAL_MS)
            ELSE sch[s]]

\* lines 496-534 (the pass reads its argument for the warning of lines 502-515
\* and 530-534 only: see FallbackActive)
ApplyFallbackSafety(rk, sch, mk) ==
    [s \in DOMAIN sch |->
        IF s \in SafetySymbols(mk) /\ sch[s].level \notin {"A", "B"}
            THEN MarketSchedule("B", 0, LEVEL_B_INTERVAL_MS)
            ELSE sch[s]]

InitializeRankedSchedulesOnly(rk, sch, mk) ==
    [s \in (DOMAIN sch) \cup (DOMAIN rk) |->
        IF s \in DOMAIN sch THEN sch[s]
        ELSE MarketSchedule("D", 0, LEVEL_D_INTERVAL_MS)]

\* lines 548-558: schedules for the catalog markets that have none yet
InitializeSchedules(rk, sch, mk) ==
    LET catalog == { mk[i].symbol_raw : i \in 1..Len(mk) }
        level(s) == IF s \in DOMAIN rk
                        THEN AssignLevelFromRank(rk[s].rank, rk[s].spread_bps)
                        ELSE "D"
    IN  [s \in (DOMAIN sch) \cup catalog |->
            IF s \in DOMAIN sch THEN sch[s]
            ELSE MarketSchedule(level(s), 0, GetIntervalForLevel(level(s)))]

\* _refresh_rankings, given the map rk that _calculate_rankings returned
RefreshRankings(rk) ==
    IF DOMAIN rk = {} THEN
        /\ schedules' = ApplyFallbackSafety(EmptyDict, schedules, markets)
        /\ refresh_outcome' = "empty"
        /\ UNCHANGED <<rankings, promotion_counters, demotion_counters,
                       promotions_this_cycle, demotions_this_cycle,
                       eligible_run, demotable_run>>
    ELSE
        \E h \in {UpdateLevelsWithHysteresis(rk, schedules, promotion_counters,
                                           demotion_counters)} :
            /\ rankings' = rk
            /\ promotion_counters' = h.promotion_counters
            /\ demotion_counters' = h.demotion_counters
            /\ promotions_this_cycle' = h.promotions_this_cycle
            /\ demotions_this_cycle' = h.demotions_this_cycle
            /\ schedules' = InitializeSchedules(rk,
                                ApplyFallbackSafety(rk, h.schedules, markets), markets)
            /\ refresh_outcome' = "ranked"
            /\ eligible_run' = [s \in DOMAIN eligible_run |->
                    IF s \notin DOMAIN rk THEN eligible_run[s]
                    ELSE IF PromotionCondition(rk[s].rank, rk[s].spread_bps)
                        THEN (IF eligible_run[s] < 3 THEN eligible_run[s] + 1 ELSE 3)
                        ELSE 0]
            /\ demotable_run' = [s \in DOMAIN demotable_run |->
                    IF s \notin DOMAIN rk THEN demotable_run[s]
                    ELSE IF DemotionCondition(rk[s].rank, rk[s].spread_bps)
                        THEN (IF demotable_run[s] < 3 THEN demotable_run[s] + 1 ELSE 3)
                        ELSE 0]

-----------------------------------------------------------------------------
(* Ranking cycles: the maps _calculate_rankings can return for the catalog. *)
(* A rank stands for its class (<= 100, 101..120, 121..200, 201..300,       *)
(* > 300); the ranks of one map are pairwise distinct, as line 355 assigns  *)
(* them.                                                                    *)

\* (rank, spread) pairs, one for each combination of outcomes of the tests of
\* lines 369-388, 411, 436 and 440 (spread 1500 and 2000 sit on the boundaries
\* "<= 15" and "> 20")
RankCases ==
    { MarketRanking(50, None), MarketRanking(50, 1500), MarketRanking(50, 2000),
      MarketRanking(50, 2500), MarketRanking(110, 1500), MarketRanking(110, 2500),
      MarketRanking(150, 1500), MarketRanking(250, 1500), MarketRanking(350, 1500) }

RankingInputs ==
    UNION { { rk \in [D -> RankCases] :
                \A a, b \in D : a # b => rk[a].rank # rk[b].rank }
            : D \in SUBSET Symbols }

\* lines 138-142: the level state of a collector just constructed
LevelsIdle ==
    /\ schedules = EmptyDict
    /\ rankings = EmptyDict
    /\ promotion_counters = [s \in Symbols |-> 0]
    /\ demotion_counters = [s \in Symbols |-> 0]
    /\ promotions_this_cycle = {}
    /\ demotions_this_cycle = {}
    /\ refresh_outcome = "none"
    /\ eligible_run = [s \in Symbols |-> 0]
    /\ demotable_run = [s \in Symbols |-> 0]

\* lines 124-136: the state of a collector whose run() has not begun
RunIdle ==
    /\ run_pc = "idle"
    /\ stop_event = FALSE
    /\ duration_over = FALSE
    /\ buffer = << >>
    /\ batch = << >>
    /\ store = << >>
    /\ tasks = << >>
    /\ skipped_spread_gt_30 = 0
    /\ ticks = 0
    /\ flush_caller = "none"
    /\ finally_steps = << >>
    /\ appended = {}
    /\ fetch_raised = {}
    /\ requeued = {}
    /\ flush_outcome = "none"
    /\ loop_raised = FALSE

\* line 133: no retention pass and no row count yet
StorageIdle ==
    /\ last_cleanup_time = 0
    /\ cleanup_outcome = "none"
    /\ cleanup_deleted = 0
    /\ busy_reads = 0
    /\ db_rows_24h = None
    /\ count_outcome = "none"

\* a metadata call that raises (and the value of a call not made)
NoMeta == [fetch |-> "raises", universe |-> << >>]

\* the value of a call that returned nothing (and of a call not made)
NoResult == [kind |-> "none", payload |-> "none"]

\* no _retry_on_lock call is in progress
RetryIdle ==
    /\ func_outcomes = << >>
    /\ attempt = 0
    /\ calls = 0
    /\ slept = << >>
    /\ retry_outcome = "none"
    /\ retry_result = NoResult

\* the state of the variables that a specification does not use
AuxIdle ==
    /\ stable_cycles = 0
    /\ fallback_active = "none"
    /\ spot_meta = NoMeta
    /\ perp_meta = NoMeta
    /\ discover_outcome = "none"
    /\ StorageIdle
    /\ buffer_lock = "free"
    /\ lock_pc = "idle"
    /\ RetryIdle
    /\ last_ranking_time = 0
    /\ refresh_times = << >>

InitLevels ==
    /\ markets = Catalog
    /\ schedules = EmptyDict
    /\ rankings = EmptyDict
    /\ promotion_counters = [s \in Symbols |-> 0]
    /\ demotion_counters = [s \in Symbols |-> 0]
    /\ promotions_this_cycle = {}
    /\ demotions_this_cycle = {}
    /\ refresh_outcome = "none"
    /\ eligible_run = [s \in Symbols |-> 0]
    /\ demotable_run = [s \in Symbols |-> 0]
    /\ run_pc = "idle"
    /\ stop_event = FALSE
    /\ duration_over = FALSE
    /\ buffer = << >>
    /\ batch = << >>
    /\ store = << >>
    /\ tasks = << >>
    /\ skipped_spread_gt_30 = 0
    /\ ticks = 0
    /\ flush_caller = "none"
    /\ finally_steps = << >>
    /\ appended = {}
    /\ fetch_raised = {}
    /\ requeued = {}
    /\ flush_outcome = "none"
    /\ loop_raised = FALSE
    /\ AuxIdle
    /\ clock_ms = 0
    /\ due_markets = << >>
    /\ latest_samples = << >>
    /\ calc_rankings = EmptyDict
    /\ calc_outcome = "none"

RankingCycle ==
    \E rk \in RankingInputs :
        /\ RefreshRankings(rk)
        /\ UNCHANGED <<markets, runVars, schedVars, rankVars, auxVars>>

NextLevels == RankingCycle

SpecLevels == InitLevels /\ [][NextLevels]_vars

-----------------------------------------------------------------------------
(* Sampling: collect_sample *)

\* what fetch_orderbook_snapshot and the parsing of lines 584-614 yield: an
\* exception, no usable best bid / best ask, or a best bid and a best ask
FetchRaises == [kind |-> "raise", bid |-> None, ask |-> None]
FetchNoBook == [kind |-> "nobook", bid |-> None, ask |-> None]
FetchBook(best_bid, best_ask) == [kind |-> "book", bid |-> best_bid, ask |-> best_ask]

\* the books of the model (prices in ticks of the price grid): spreads of
\* 29.985, 30.000 and 30.015 basis points
FetchOutcomes ==
    { FetchRaises, FetchNoBook,
      FetchBook(999, 1002), FetchBook(1997, 2003), FetchBook(998, 1001) }

\* line 620, ((ask - bid) / mid) * 10000 with mid = (bid + ask) / 2, in
\* hundredths of a basis point (rounded down)
SpreadBps(bid, ask) == ((ask - bid) * 20000 * 100) \div (bid + ask)

SpreadAtOrAboveIgnoreThreshold(bid, ask) ==
    (ask - bid) * 20000 >= SPREAD_BPS_IGNORE_THRESHOLD * (bid + ask)

\* line 626: "spread_bps > SPREAD_BPS_IGNORE_THRESHOLD", decided on the exact
\* quotient of line 620
SpreadAboveIgnoreThreshold(bid, ask) ==
    (ask - bid) * 20000 > SPREAD_BPS_IGNORE_THRESHOLD * (bid + ask)

\* lines 569, 623 and 662-663
StaleFlagOnRaiseOnly(raised, bid, ask) == raised

StaleFlag(raised, bid, ask) == raised \/ bid = None \/ ask = None

MarketSample(tick, symbol_raw, bid, ask, spread_bps, level, stale_flag) ==
    [tick |-> tick, symbol_raw |-> symbol_raw, bid |-> bid, ask |-> ask,
     spread_bps |-> spread_bps, level |-> level, stale_flag |-> stale_flag]

SampleReturnedUnlessRaised(raised, skipped) == ~skipped /\ ~raised

\* lines 621-634 and 695: an exception of the fetch is caught and the sample
\* is built all the same; only the spread filter returns None
SampleReturned(raised, skipped) == ~skipped

\* collect_sample(market) in tick number tick, the fetch ending as outcome:
\* whether a sample is returned (not None), and the sample
CollectSample(market, outcome, tick, sch, rk) ==
    LET priced == outcome.kind = "book" /\ outcome.bid > 0 /\ outcome.ask > 0
        bid == IF priced THEN outcome.bid ELSE None
        ask == IF priced THEN outcome.ask ELSE None
        spread_bps == IF priced THEN SpreadBps(bid, ask) ELSE None
        raised == outcome.kind = "raise"
        skipped == spread_bps # None /\ SpreadAboveIgnoreThreshold(bid, ask)
        stale_flag == StaleFlag(raised, bid, ask)
        level == IF market.symbol_raw \in DOMAIN rk
                      /\ market.symbol_raw \in DOMAIN sch
                     THEN sch[market.symbol_raw].level ELSE "D"
    IN  [returned |-> SampleReturned(raised, skipped),
         sample |-> MarketSample(tick, market.symbol_raw, bid, ask, spread_bps,
                                 level, stale_flag)]

-----------------------------------------------------------------------------
(* Scheduler: _get_markets_due_for_sampling *)

IsDueStrictlyAfter(now_ms, next_due_ms) == now_ms > next_due_ms

\* line 854
IsDue(now_ms, next_due_ms) == now_ms >= next_due_ms

\* a selection that passes over the markets without a Schedule
SkippedWithoutSchedule(market) == FALSE

\* lines 849-852: a market without a Schedule is appended to the due list
DueWithoutSchedule(market) == TRUE

RECURSIVE DueIndexes(_, _, _, _)
\* the catalog positions from i on whose market is due at now_ms, in order
DueIndexes(i, now_ms, mk, sch) ==
    IF i > Len(mk) THEN << >>
    ELSE LET s == mk[i].symbol_raw
             due == IF s \notin DOMAIN sch THEN DueWithoutSchedule(mk[i])
                    ELSE IsDue(now_ms, sch[s].next_due_ms)
         IN  (IF due THEN <<i>> ELSE << >>) \o DueIndexes(i + 1, now_ms, mk, sch)

GetMarketsDueForSampling(now_ms, mk, sch) ==
    LET due == DueIndexes(1, now_ms, mk, sch)
        dueSyms == { mk[due[k]].symbol_raw : k \in 1..Len(due) }
    IN  [due_markets |-> due,
         schedules |-> [s \in DOMAIN sch |->
                          IF s \in dueSyms
                              THEN [sch[s] EXCEPT !.next_due_ms = now_ms + sch[s].interval_ms]
                              ELSE sch[s]]]

-----------------------------------------------------------------------------
(* The main loop: run(), flush_buffer, add_to_buffer                        *)
(*                                                                         *)
(* The runs of the model are runs in which _calculate_rankings returns an   *)
(* empty map every time (no row in the freshness window, or the query       *)
(* raising, line 362): no market gets a Schedule, so every market is due in *)
(* every tick.  They are shorter than the 24 h retention window, so the     *)
(* delete of line 780 removes none of their rows.                           *)

MaxTicks == 2

\* the buffer size that triggers a flush inside a tick (50 at line 915)
FlushThreshold == 2

\* max_concurrent_snapshots (line 124; 10 by default)
MaxConcurrentSnapshots == 1

RunRankingInputs == { EmptyDict }

\* a tick's read of the clock (line 890); the model's runs start at 1000 ms
NowMs == 1000 + 50 * ticks

\* a collect_sample coroutine for the market at position i, created in a tick
Task(i, tick) ==
    [market |-> i, tick |-> tick, state |-> "waiting", outcome |-> FetchNoBook]

GatherReturnsAtOnce == TRUE

\* line 903: "await asyncio.gather(*tasks, ...)" resumes run() when the
\* last task has finished
AllDone == \A k \in DOMAIN tasks : tasks[k].state = "done"

\* line 873-876
RunStart ==
    /\ run_pc = "idle"
    /\ \E discovered \in { << >>, Catalog } :
        /\ markets' = discovered
        /\ run_pc' = IF discovered = << >> THEN "returned" ELSE "initial_refresh"
    /\ UNCHANGED <<levelVars, stop_event, duration_over, buffer, batch, store, tasks,
                   skipped_spread_gt_30, ticks, flush_caller, finally_steps,
                   appended, fetch_raised, requeued, flush_outcome, loop_raised,
                   schedVars, rankVars, auxVars>>

\* line 879
InitialRefresh ==
    /\ run_pc = "initial_refresh"
    /\ \E rk \in RunRankingInputs : RefreshRankings(rk)
    /\ run_pc' = "loop"
    /\ UNCHANGED <<markets, stop_event, duration_over, buffer, batch, store, tasks,
                   skipped_spread_gt_30, ticks, flush_caller, finally_steps,
                   appended, fetch_raised, requeued, flush_outcome, loop_raised,
                   schedVars, rankVars, auxVars>>

\* a loop test that looks at the stop signal only
LoopEndsOnStopOnly(stop, over) == stop

\* lines 885-888: the loop ends on the stop signal or on the duration bound
LoopEnds(stop, over) == stop \/ over

\* lines 885-888: the loop test
LoopTest ==
    /\ run_pc = "loop"
    /\ IF LoopEnds(stop_event, duration_over)
          THEN run_pc' = "finally" /\ ticks' = ticks
          ELSE ticks < MaxTicks /\ run_pc' = "refresh" /\ ticks' = ticks + 1
    /\ UNCHANGED <<markets, levelVars, stop_event, duration_over, buffer, batch, store, tasks,
                   skipped_spread_gt_30, flush_caller, finally_steps,
                   appended, fetch_raised, requeued, flush_outcome, loop_raised,
                   schedVars, rankVars, auxVars>>

\* lines 893-895: the refresh is due or not
TickRefresh ==
    /\ run_pc = "refresh"
    /\ \E refresh_due \in BOOLEAN :
        IF refresh_due
            THEN \E rk \in RunRankingInputs : RefreshRankings(rk)
            ELSE UNCHANGED levelVars
    /\ run_pc' = "select"
    /\ UNCHANGED <<markets, stop_event, duration_over, buffer, batch, store, tasks,
                   skipped_spread_gt_30, ticks, flush_caller, finally_steps,
                   appended, fetch_raised, requeued, flush_outcome, loop_raised,
                   schedVars, rankVars, auxVars>>

\* lines 898-902: the due markets and one collect_sample task for each
SelectDue ==
    /\ run_pc = "select"
    /\ LET g == GetMarketsDueForSampling(NowMs, markets, schedules)
       IN  /\ schedules' = g.schedules
           /\ tasks' = [k \in 1..Len(g.due_markets) |-> Task(g.due_markets[k], ticks)]
           /\ run_pc' = IF g.due_markets = << >> THEN "flush_test" ELSE "gather"
    /\ UNCHANGED <<markets, promotion_counters, demotion_counters, rankings,
                   promotions_this_cycle, demotions_this_cycle, refresh_outcome,
                   eligible_run, demotable_run, stop_event, duration_over, buffer, batch, store,
                   skipped_spread_gt_30, ticks, flush_caller, finally_steps,
                   appended, fetch_raised, requeued, flush_outcome, loop_raised,
                   schedVars, rankVars, auxVars>>

SemaphoreAlwaysFree(in_flight) == TRUE

\* lines 136 and 579: asyncio.Semaphore(max_concurrent_snapshots) lets a
\* task in while fewer than that many hold it
SemaphoreFree(in_flight) == in_flight < MaxConcurrentSnapshots

\* the tasks inside "async with self.snapshot_semaphore" (lines 579-582)
InFlight == {j \in DOMAIN tasks : tasks[j].state = "fetching"}

\* line 579: a task enters the semaphore
TaskAcquire(k) ==
    /\ run_pc = "gather"
    /\ tasks[k].state = "waiting"
    /\ SemaphoreFree(Cardinality(InFlight))
    /\ tasks' = [tasks EXCEPT ![k].state = "fetching"]
    /\ UNCHANGED <<markets, levelVars, run_pc, stop_event, duration_over, buffer, batch, store,
                   skipped_spread_gt_30, ticks, flush_caller, finally_steps,
                   appended, fetch_raised, requeued, flush_outcome, loop_raised,
                   schedVars, rankVars, auxVars>>

\* lines 580-695: the fetch ends, the semaphore is released and the task
\* runs to its return
TaskFinish(k) ==
    /\ run_pc = "gather"
    /\ tasks[k].state = "fetching"
    /\ \E outcome \in FetchOutcomes :
        LET r == CollectSample(markets[tasks[k].market], outcome, tasks[k].tick,
                               schedules, rankings)
        IN  /\ tasks' = [tasks EXCEPT ![k].state = "done", ![k].outcome = outcome]
            /\ skipped_spread_gt_30' =
                  IF r.returned THEN skipped_spread_gt_30 ELSE skipped_spread_gt_30 + 1
            /\ fetch_raised' =
                  IF outcome.kind = "raise"
                      THEN fetch_raised \cup {<<tasks[k].tick, r.sample.symbol_raw>>}
                      ELSE fetch_raised
    /\ UNCHANGED <<markets, levelVars, run_pc, stop_event, duration_over, buffer, batch, store,
                   ticks, flush_caller, finally_steps, appended,
                   requeued, flush_outcome, loop_raised,
                   schedVars, rankVars, auxVars>>

\* the value the task k returned to gather
TaskResult(k) ==
    CollectSample(markets[tasks[k].market], tasks[k].outcome, tasks[k].tick,
                  schedules, rankings)

\* line 903: gather returns when every task is done
GatherReturns ==
    /\ run_pc = "gather"
    /\ AllDone
    /\ run_pc' = "append"
    /\ UNCHANGED <<markets, levelVars, stop_event, duration_over, buffer, batch, store, tasks,
                   skipped_spread_gt_30, ticks, flush_caller, finally_steps,
                   appended, fetch_raised, requeued, flush_outcome, loop_raised,
                   schedVars, rankVars, auxVars>>

\* lines 905-910 and add_to_buffer: the next result of the loop
AppendNext ==
    /\ run_pc = "append"
    /\ \E k \in DOMAIN tasks :
        /\ tasks[k].state = "done"
        /\ \A j \in 1..(k - 1) : tasks[j].state = "visited"
        /\ tasks' = [tasks EXCEPT ![k].state = "visited"]
        /\ IF TaskResult(k).returned
              THEN /\ buffer' = Append(buffer, TaskResult(k).sample)
                   /\ appended' = appended \cup {TaskResult(k).sample}
              ELSE UNCHANGED <<buffer, appended>>
    /\ UNCHANGED <<markets, levelVars, run_pc, stop_event, duration_over, batch, store,
                   skipped_spread_gt_30, ticks, flush_caller, finally_steps,
                   fetch_raised, requeued, flush_outcome, loop_raised,
                   schedVars, rankVars, auxVars>>

AppendDone ==
    /\ run_pc = "append"
    /\ \A k \in DOMAIN tasks : tasks[k].state = "visited"
    /\ run_pc' = "flush_test"
    /\ UNCHANGED <<markets, levelVars, stop_event, duration_over, buffer, batch, store, tasks,
                   skipped_spread_gt_30, ticks, flush_caller, finally_steps,
                   appended, fetch_raised, requeued, flush_outcome, loop_raised,
                   schedVars, rankVars, auxVars>>

\* lines 913-916
FlushTest ==
    /\ run_pc = "flush_test"
    /\ IF Len(buffer) >= FlushThreshold
          THEN run_pc' = "flush_swap" /\ flush_caller' = "tick"
          ELSE run_pc' = "cleanup" /\ flush_caller' = flush_caller
    /\ UNCHANGED <<markets, levelVars, stop_event, duration_over, buffer, batch, store, tasks,
                   skipped_spread_gt_30, ticks, finally_steps,
                   appended, fetch_raised, requeued, flush_outcome, loop_raised,
                   schedVars, rankVars, auxVars>>

\* lines 747-749: the transaction adds the batch to the table
CommitNothing(rows, samples) == rows

Commit(rows, samples) == rows \o samples

\* line 755: self.buffer.extend(samples)
RequeueDropsBatch(buf, samples) == buf

Requeue(buf, samples) == buf \o samples

\* where flush_buffer returns to
AfterFlush == IF flush_caller = "tick" THEN "cleanup" ELSE "final_status"

\* flush_buffer, lines 735-741: under the lock, an empty buffer returns 0,
\* otherwise the buffer is swapped out
FlushSwap ==
    /\ run_pc = "flush_swap"
    /\ IF buffer = << >>
          THEN /\ run_pc' = AfterFlush
               /\ finally_steps' = IF flush_caller = "finally"
                                      THEN Append(finally_steps, "flush")
                                      ELSE finally_steps
               /\ flush_outcome' = "empty"
               /\ UNCHANGED <<buffer, batch>>
          ELSE /\ batch' = buffer
               /\ buffer' = << >>
               /\ run_pc' = "flush_insert"
               /\ UNCHANGED <<finally_steps, flush_outcome>>
    /\ UNCHANGED <<markets, levelVars, stop_event, duration_over, store, tasks,
                   skipped_spread_gt_30, ticks, flush_caller,
                   appended, fetch_raised, requeued,
                   loop_raised, schedVars, rankVars, auxVars>>

\* lines 746-750: the transaction commits the whole batch
FlushCommit ==
    /\ run_pc = "flush_insert"
    /\ store' = Commit(store, batch)
    /\ batch' = << >>
    /\ flush_outcome' = "committed"
    /\ run_pc' = AfterFlush
    /\ finally_steps' = IF flush_caller = "finally"
                           THEN Append(finally_steps, "flush")
                           ELSE finally_steps
    /\ UNCHANGED <<markets, levelVars, stop_event, duration_over, buffer, tasks,
                   skipped_spread_gt_30, ticks, flush_caller,
                   appended, fetch_raised, requeued,
                   loop_raised, schedVars, rankVars, auxVars>>

\* line 751: the transaction raises (nothing of it is committed)
FlushInsertRaises ==
    /\ run_pc = "flush_insert"
    /\ run_pc' = "flush_requeue"
    /\ UNCHANGED <<markets, levelVars, stop_event, duration_over, buffer, batch, store, tasks,
                   skipped_spread_gt_30, ticks, flush_caller, finally_steps,
                   appended, fetch_raised, requeued, flush_outcome, loop_raised,
                   schedVars, rankVars, auxVars>>

\* lines 754-756: under the lock, the batch goes back to the buffer
FlushRequeue ==
    /\ run_pc = "flush_requeue"
    /\ buffer' = Requeue(buffer, batch)
    /\ requeued' = requeued \cup { batch[i] : i \in DOMAIN batch }
    /\ batch' = << >>
    /\ flush_outcome' = "raised"
    /\ run_pc' = AfterFlush
    /\ finally_steps' = IF flush_caller = "finally"
                           THEN Append(finally_steps, "flush")
                           ELSE finally_steps
    /\ UNCHANGED <<markets, levelVars, stop_event, duration_over, store, tasks,
                   skipped_spread_gt_30, ticks, flush_caller,
                   appended, fetch_raised,
                   loop_raised, schedVars, rankVars, auxVars>>

\* line 919: cleanup_old_data; no row of the run is older than 24 h
Cleanup ==
    /\ run_pc = "cleanup"
    /\ run_pc' = "status"
    /\ UNCHANGED <<markets, levelVars, stop_event, duration_over, buffer, batch, store, tasks,
                   skipped_spread_gt_30, ticks, flush_caller, finally_steps,
                   appended, fetch_raised, requeued, flush_outcome, loop_raised,
                   schedVars, rankVars, auxVars>>

\* line 922: write_status_json returns
WriteStatus ==
    /\ run_pc = "status"
    /\ run_pc' = "sleep"
    /\ UNCHANGED <<markets, levelVars, stop_event, duration_over, buffer, batch, store, tasks,
                   skipped_spread_gt_30, ticks, flush_caller, finally_steps,
                   appended, fetch_raised, requeued, flush_outcome, loop_raised,
                   schedVars, rankVars, auxVars>>

OnLoopExceptionNextTick == "sleep"

\* lines 884 and 927-929: the try encloses the whole loop, so an exception
\* raised in a tick is logged and control goes to the finally block
OnLoopException == "finally"

\* line 922 raising (the file cannot be written)
WriteStatusRaises ==
    /\ run_pc = "status"
    /\ run_pc' = OnLoopException
    /\ loop_raised' = TRUE
    /\ UNCHANGED <<markets, levelVars, stop_event, duration_over, buffer, batch, store, tasks,
                   skipped_spread_gt_30, ticks, flush_caller, finally_steps,
                   appended, fetch_raised, requeued, flush_outcome,
                   schedVars, rankVars, auxVars>>

\* line 925
Sleep ==
    /\ run_pc = "sleep"
    /\ run_pc' = "loop"
    /\ UNCHANGED <<markets, levelVars, stop_event, duration_over, buffer, batch, store, tasks,
                   skipped_spread_gt_30, ticks, flush_caller, finally_steps,
                   appended, fetch_raised, requeued, flush_outcome, loop_raised,
                   schedVars, rankVars, auxVars>>

\* line 931: the finally block calls flush_buffer
FinalFlush ==
    /\ run_pc = "finally"
    /\ run_pc' = "flush_swap"
    /\ flush_caller' = "finally"
    /\ UNCHANGED <<markets, levelVars, stop_event, duration_over, buffer, batch, store, tasks,
                   skipped_spread_gt_30, ticks, finally_steps,
                   appended, fetch_raised, requeued, flush_outcome, loop_raised,
                   schedVars, rankVars, auxVars>>

\* lines 932-933: the final write_status_json, then run() returns
FinalStatus ==
    /\ run_pc = "final_status"
    /\ finally_steps' = Append(finally_steps, "status")
    /\ run_pc' = "returned"
    /\ UNCHANGED <<markets, levelVars, stop_event, duration_over, buffer, batch, store, tasks,
                   skipped_spread_gt_30, ticks, flush_caller,
                   appended, fetch_raised, requeued, flush_outcome, loop_raised,
                   schedVars, rankVars, auxVars>>

\* line 932 raising: the exception leaves run()
FinalStatusRaises ==
    /\ run_pc = "final_status"
    /\ finally_steps' = Append(finally_steps, "status raised")
    /\ run_pc' = "raised"
    /\ UNCHANGED <<markets, levelVars, stop_event, duration_over, buffer, batch, store, tasks,
                   skipped_spread_gt_30, ticks, flush_caller,
                   appended, fetch_raised, requeued, flush_outcome, loop_raised,
                   schedVars, rankVars, auxVars>>

\* stop_event.set(), by whoever stops the collector
SetStop ==
    /\ run_pc \notin {"idle", "returned", "raised"}
    /\ ~stop_event
    /\ stop_event' = TRUE
    /\ UNCHANGED <<markets, levelVars, run_pc, duration_over, buffer, batch, store,
                   tasks, skipped_spread_gt_30, ticks, flush_caller, finally_steps,
                   appended, fetch_raised, requeued, flush_outcome, loop_raised,
                   schedVars, rankVars, auxVars>>

\* line 886: the time since the loop began reaches duration_sec
DurationElapses ==
    /\ run_pc \notin {"idle", "initial_refresh", "returned", "raised"}
    /\ ~duration_over
    /\ duration_over' = TRUE
    /\ UNCHANGED <<markets, levelVars, run_pc, stop_event, buffer, batch, store,
                   tasks, skipped_spread_gt_30, ticks, flush_caller, finally_steps,
                   appended, fetch_raised, requeued, flush_outcome, loop_raised,
                   schedVars, rankVars, auxVars>>

Init ==
    /\ markets = << >>
    /\ schedules = EmptyDict
    /\ rankings = EmptyDict
    /\ promotion_counters = [s \in Symbols |-> 0]
    /\ demotion_counters = [s \in Symbols |-> 0]
    /\ promotions_this_cycle = {}
    /\ demotions_this_cycle = {}
    /\ refresh_outcome = "none"
    /\ eligible_run = [s \in Symbols |-> 0]
    /\ demotable_run = [s \in Symbols |-> 0]
    /\ run_pc = "idle"
    /\ stop_event = FALSE
    /\ duration_over = FALSE
    /\ buffer = << >>
    /\ batch = << >>
    /\ store = << >>
    /\ tasks = << >>
    /\ skipped_spread_gt_30 = 0
    /\ ticks = 0
    /\ flush_caller = "none"
    /\ finally_steps = << >>
    /\ appended = {}
    /\ fetch_raised = {}
    /\ requeued = {}
    /\ flush_outcome = "none"
    /\ loop_raised = FALSE
    /\ AuxIdle
    /\ clock_ms = 0
    /\ due_markets = << >>
    /\ latest_samples = << >>
    /\ calc_rankings = EmptyDict
    /\ calc_outcome = "none"

Next ==
    \/ RunStart
    \/ InitialRefresh
    \/ LoopTest
    \/ TickRefresh
    \/ SelectDue
    \/ \E k \in DOMAIN tasks : TaskAcquire(k)
    \/ \E k \in DOMAIN tasks : TaskFinish(k)
    \/ GatherReturns
    \/ AppendNext
    \/ AppendDone
    \/ FlushTest
    \/ FlushSwap
    \/ FlushCommit
    \/ FlushInsertRaises
    \/ FlushRequeue
    \/ Cleanup
    \/ WriteStatus
    \/ WriteStatusRaises
    \/ Sleep
    \/ FinalFlush
    \/ FinalStatus
    \/ FinalStatusRaises
    \/ SetStop
    \/ DurationElapses

Spec == Init /\ [][Next]_vars

\* the event loop goes on running the coroutines that can run: every fetch,
\* insert and sleep that is awaited ends
SpecFair == Spec /\ WF_vars(Next)

-----------------------------------------------------------------------------
(* Ranking: _calculate_percentile_rank and _calculate_rankings              *)
(* (specification SpecRank).  A percentile and a score are fractions: the   *)
(* model holds a percentile as numerator and denominator, and a score as    *)
(* the numerator it has over the denominator 10 * den * den * den of the    *)
(* three percentiles of one ranking, which is the same for every market of  *)
(* that ranking.  The code computes both in floating point.                 *)

\* a row of the query of lines 300-305, with the columns the ranking reads
SampleRow(symbol_raw, volume_24h_usd, open_interest_usd, spread_bps) ==
    [symbol_raw |-> symbol_raw, volume_24h_usd |-> volume_24h_usd,
     open_interest_usd |-> open_interest_usd, spread_bps |-> spread_bps]

RECURSIVE GroupAll(_, _)
GroupAll(rows, market_data) ==
    IF rows = << >> THEN market_data
    ELSE GroupAll(Tail(rows), Append(market_data, Head(rows)))

RECURSIVE GroupLatest(_, _)
\* lines 308-311: the first row of each symbol, in the order of the query
\* result (most recent first)
GroupLatest(rows, market_data) ==
    IF rows = << >> THEN market_data
    ELSE GroupLatest(Tail(rows),
            IF \E k \in DOMAIN market_data :
                   market_data[k].symbol_raw = Head(rows).symbol_raw
                THEN market_data
                ELSE Append(market_data, Head(rows)))

\* lines 318-324: the values that are not None
WithoutNone(values) == SelectSeq(values, LAMBDA v : v # None)

\* lines 331-333: "x or 0.0"
OrZero(v) == IF v = None THEN 0 ELSE v

Fraction(num, den) == [num |-> num, den |-> den]

PercentileRankOfBelow(value, all_values) ==
    IF all_values = << >> THEN Fraction(0, 1)
    ELSE Fraction(2 * Cardinality({k \in DOMAIN all_values : all_values[k] < value}),
                  2 * Len(all_values))

PercentileRankOfAtMost(value, all_values) ==
    IF all_values = << >> THEN Fraction(0, 1)
    ELSE Fraction(2 * Cardinality({k \in DOMAIN all_values : all_values[k] <= value}),
                  2 * Len(all_values))

\* _calculate_percentile_rank: (count_below + count_equal / 2.0) / len
PercentileRank(value, all_values) ==
    IF all_values = << >> THEN Fraction(0, 1)
    ELSE LET count_below == Cardinality({k \in DOMAIN all_values : all_values[k] < value})
             count_equal == Cardinality({k \in DOMAIN all_values : all_values[k] = value})
         IN  Fraction(2 * count_below + count_equal, 2 * Len(all_values))

\* line 342: 0.6 * volume_norm + 0.3 * oi_norm - 0.1 * spread_norm
Score(volume_norm, oi_norm, spread_norm) ==
    6 * volume_norm.num * oi_norm.den * spread_norm.den
    + 3 * oi_norm.num * volume_norm.den * spread_norm.den
    - spread_norm.num * volume_norm.den * oi_norm.den

\* where a stable sort by descending score puts x among the sorted entries
InsertBeforeEquals(sorted, x) ==
    LET ahead == {k \in DOMAIN sorted : sorted[k].score > x.score}
    IN  SubSeq(sorted, 1, Cardinality(ahead)) \o <<x>>
           \o SubSeq(sorted, Cardinality(ahead) + 1, Len(sorted))

InsertStable(sorted, x) ==
    LET ahead == {k \in DOMAIN sorted : sorted[k].score >= x.score}
    IN  SubSeq(sorted, 1, Cardinality(ahead)) \o <<x>>
           \o SubSeq(sorted, Cardinality(ahead) + 1, Len(sorted))

RECURSIVE SortByScoreDescending(_, _)
\* line 353: market_scores.sort(key=..., reverse=True), a stable sort
SortByScoreDescending(market_scores, sorted) ==
    IF market_scores = << >> THEN sorted
    ELSE SortByScoreDescending(Tail(market_scores),
                               InsertStable(sorted, Head(market_scores)))

\* an entry of the map _calculate_rankings returns, with the three locals of
\* lines 337-339
RankingEntry(rank, score, spread_bps, volume_norm, oi_norm, spread_norm) ==
    [rank |-> rank, score |-> score, spread_bps |-> spread_bps,
     volume_norm |-> volume_norm, oi_norm |-> oi_norm, spread_norm |-> spread_norm]

\* _calculate_rankings on the rows its query returned
CalculateRankings(rows) ==
    LET market_data == GroupLatest(rows, << >>)
        volumes == WithoutNone([k \in DOMAIN market_data |-> market_data[k].volume_24h_usd])
        ois == WithoutNone([k \in DOMAIN market_data |-> market_data[k].open_interest_usd])
        spreads == WithoutNone([k \in DOMAIN market_data |-> market_data[k].spread_bps])
        volume_norm(k) == PercentileRank(OrZero(market_data[k].volume_24h_usd), volumes)
        oi_norm(k) == PercentileRank(OrZero(market_data[k].open_interest_usd), ois)
        spread_norm(k) == PercentileRank(OrZero(market_data[k].spread_bps), spreads)
        market_scores == [k \in DOMAIN market_data |->
                            [symbol_raw |-> market_data[k].symbol_raw,
                             score |-> Score(volume_norm(k), oi_norm(k), spread_norm(k))]]
        sorted == SortByScoreDescending(market_scores, << >>)
        \* a dict keeps the last value written under a key
        last(s) == CHOOSE k \in DOMAIN market_data :
                      /\ market_data[k].symbol_raw = s
                      /\ \A j \in DOMAIN market_data :
                            market_data[j].symbol_raw = s => j <= k
        rank(s) == CHOOSE r \in DOMAIN sorted :
                      /\ sorted[r].symbol_raw = s
                      /\ \A q \in DOMAIN sorted : sorted[q].symbol_raw = s => q <= r
    IN  [s \in {market_data[k].symbol_raw : k \in DOMAIN market_data} |->
            RankingEntry(rank(s), market_scores[last(s)].score,
                         market_data[last(s)].spread_bps,
                         volume_norm(last(s)), oi_norm(last(s)), spread_norm(last(s)))]

\* the most rows the query returns in the model
MaxRows == 3

\* the catalog of the ranking runs
RankCatalog == Catalog \o << MarketInfo("ETH", "PERP", "ETH") >>

\* (volume, open interest, spread) of a row: all present, some missing, all
\* missing, and a market that traded nothing in the day ("dayNtlVlm": "0.0")
\* over a locked book (best bid = best ask, a spread of 0.0)
RowCases ==
    { <<100, 50, 1000>>, <<200, None, 2000>>, <<200, 50, None>>, <<None, None, None>>,
      <<0, 50, 0>> }

Rows ==
    { SampleRow(RankCatalog[i].symbol_raw, c[1], c[2], c[3]) :
        i \in 1..Len(RankCatalog), c \in RowCases }

\* the results of the query: any rows, most recent first
RowInputs == UNION { [1..n -> Rows] : n \in 0..MaxRows }

InitRank ==
    /\ markets = RankCatalog
    /\ schedules = EmptyDict
    /\ rankings = EmptyDict
    /\ promotion_counters = [s \in Symbols |-> 0]
    /\ demotion_counters = [s \in Symbols |-> 0]
    /\ promotions_this_cycle = {}
    /\ demotions_this_cycle = {}
    /\ refresh_outcome = "none"
    /\ eligible_run = [s \in Symbols |-> 0]
    /\ demotable_run = [s \in Symbols |-> 0]
    /\ run_pc = "idle"
    /\ stop_event = FALSE
    /\ duration_over = FALSE
    /\ buffer = << >>
    /\ batch = << >>
    /\ store = << >>
    /\ tasks = << >>
    /\ skipped_spread_gt_30 = 0
    /\ ticks = 0
    /\ flush_caller = "none"
    /\ finally_steps = << >>
    /\ appended = {}
    /\ fetch_raised = {}
    /\ requeued = {}
    /\ flush_outcome = "none"
    /\ loop_raised = FALSE
    /\ AuxIdle
    /\ clock_ms = 0
    /\ due_markets = << >>
    /\ latest_samples \in RowInputs
    /\ calc_rankings = EmptyDict
    /\ calc_outcome = "queried"

\* lines 326-360: the ranking is computed and returned
CalcReturns ==
    /\ calc_outcome = "queried"
    /\ calc_rankings' = CalculateRankings(latest_samples)
    /\ calc_outcome' = "computed"
    /\ UNCHANGED <<markets, levelVars, runVars, schedVars, latest_samples, auxVars>>

\* lines 362-364: an exception inside the try; the empty map is returned
CalcRaises ==
    /\ calc_outcome = "queried"
    /\ calc_rankings' = EmptyDict
    /\ calc_outcome' = "error"
    /\ UNCHANGED <<markets, levelVars, runVars, schedVars, latest_samples, auxVars>>

NextRank ==
    \/ CalcReturns
    \/ CalcRaises

SpecRank == InitRank /\ [][NextRank]_vars

-----------------------------------------------------------------------------
(* The scheduler under a clock (specification SpecSched): the part of a     *)
(* tick that reads the clock, refreshes the ranking when it is due and      *)
(* selects the due markets (lines 890-898).  The clock counts the           *)
(* milliseconds since the run began; the sampling, flushing and reporting   *)
(* of a tick take time but touch neither the clock reading nor a Schedule.  *)

\* the latest clock reading of the model's runs
MaxClockMs == 2300

\* the time from one clock reading (line 890) to the next: the 50 ms sleep of
\* line 925 at least, or as long as a slow tick takes
TickDurations == {50, 250, 2000}

\* the maps _calculate_rankings returns in these runs
SchedRankingInputs ==
    { EmptyDict,
      [s \in Symbols |-> IF s = "BTC" THEN MarketRanking(50, 1500)
                                      ELSE MarketRanking(150, 1500)] }

InitSched ==
    /\ InitLevels
    /\ run_pc = "idle"

\* line 890: now_ms = int(time.time() * 1000)
SchedReadClock ==
    /\ run_pc \in {"idle", "loop"}
    /\ \E d \in TickDurations :
        /\ clock_ms + d <= MaxClockMs
        /\ clock_ms' = clock_ms + d
    /\ run_pc' = "refresh"
    /\ UNCHANGED <<markets, levelVars, stop_event, duration_over, buffer, batch, store, tasks,
                   skipped_spread_gt_30, ticks, flush_caller, finally_steps,
                   appended, fetch_raised, requeued, flush_outcome, loop_raised,
                   due_markets, rankVars, auxVars>>

\* lines 893-895, the refresh being due
SchedRefresh ==
    /\ run_pc = "refresh"
    /\ \E rk \in SchedRankingInputs : RefreshRankings(rk)
    /\ run_pc' = "select"
    /\ UNCHANGED <<markets, stop_event, duration_over, buffer, batch, store, tasks,
                   skipped_spread_gt_30, ticks, flush_caller, finally_steps,
                   appended, fetch_raised, requeued, flush_outcome, loop_raised,
                   schedVars, rankVars, auxVars>>

\* line 893, the refresh not being due
SchedNoRefresh ==
    /\ run_pc = "refresh"
    /\ run_pc' = "select"
    /\ UNCHANGED <<markets, levelVars, stop_event, duration_over, buffer, batch, store, tasks,
                   skipped_spread_gt_30, ticks, flush_caller, finally_steps,
                   appended, fetch_raised, requeued, flush_outcome, loop_raised,
                   schedVars, rankVars, auxVars>>

\* line 898, with the now_ms of line 890
SchedSelect ==
    /\ run_pc = "select"
    /\ LET g == GetMarketsDueForSampling(clock_ms, markets, schedules)
       IN  /\ schedules' = g.schedules
           /\ due_markets' = g.due_markets
    /\ run_pc' = "loop"
    /\ UNCHANGED <<markets, promotion_counters, demotion_counters, rankings,
                   promotions_this_cycle, demotions_this_cycle, refresh_outcome,
                   eligible_run, demotable_run, stop_event, duration_over, buffer, batch, store,
                   tasks, skipped_spread_gt_30, ticks, flush_caller, finally_steps,
                   appended, fetch_raised, requeued, flush_outcome, loop_raised,
                   clock_ms, rankVars, auxVars>>

NextSched ==
    \/ SchedReadClock
    \/ SchedRefresh
    \/ SchedNoRefresh
    \/ SchedSelect

SpecSched == InitSched /\ [][NextSched]_vars

-----------------------------------------------------------------------------
(* Properties of the level state machine (checked under SpecLevels) *)

HasSchedule(s) == s \in DOMAIN schedules
LevelIs(s, levels) == s \in DOMAIN schedules /\ schedules[s].level \in levels
HasScheduleAfter(s) == s \in DOMAIN schedules'
LevelAfterIs(s, levels) == s \in DOMAIN schedules' /\ schedules'[s].level \in levels

\* the step is a ranking cycle that ranked s (self.rankings is then this cycle's map)
RankedCycle(s) == refresh_outcome' = "ranked" /\ s \in DOMAIN rankings'

C2_SafetyAssetsAtLeastBAfterRankedRefresh ==
    refresh_outcome = "ranked" =>
        \A s \in SafetySymbols(markets) : LevelIs(s, {"A", "B"})

\* C5: in a cycle that ranks a market with a missing spread, the market's
\* promotion streak is not incremented and the market does not move to A.
C5_MissingSpreadNeverPromotionEligible ==
    [][\A s \in Symbols :
          (RankedCycle(s) /\ rankings'[s].spread_bps = None)
          => /\ promotion_counters'[s] <= promotion_counters[s]
             /\ ~(~LevelIs(s, {"A"}) /\ LevelAfterIs(s, {"A"}))
      ]_vars

\* The three parts of C6 that do not name the level after the demotion: a
\* market at A leaves A only in a cycle that ranks it, that is the third
\* consecutive one satisfying the demotion condition, and in which the
\* demotion streak goes from 2 to 0; a ranked cycle of an A market that does
\* not satisfy the condition resets the streak to 0.
LeavesAOnlyOnThirdDemotableCycle(s) ==
    /\ (LevelIs(s, {"A"}) /\ ~LevelAfterIs(s, {"A"}))
       => /\ RankedCycle(s)
          /\ demotion_counters[s] = 2
          /\ demotable_run'[s] = 3
          /\ demotion_counters'[s] = 0
          /\ s \in demotions_this_cycle'
    /\ (LevelIs(s, {"A"}) /\ RankedCycle(s)
          /\ ~DemotionCondition(rankings'[s].rank, rankings'[s].spread_bps))
       => demotion_counters'[s] = 0 /\ LevelAfterIs(s, {"A"})

\* C6 as stated: ... and on demotion the new level is the direct rank mapping
\* of the current rank and spread.
C6_DemotionToDirectMapping ==
    [][\A s \in Symbols :
          /\ LeavesAOnlyOnThirdDemotableCycle(s)
          /\ (LevelIs(s, {"A"}) /\ ~LevelAfterIs(s, {"A"}))
             => LevelAfterIs(s, {AssignLevelFromRank(rankings'[s].rank,
                                                     rankings'[s].spread_bps)})
      ]_vars

\* C6 amended: ... and on demotion the new level is the direct rank mapping
\* of the current rank and spread, except that a safety asset whose mapping
\* is C or D ends the cycle at B (the fallback pass of the same refresh).
C6_DemotionToDirectMappingOrSafetyFloor ==
    [][\A s \in Symbols :
          /\ LeavesAOnlyOnThirdDemotableCycle(s)
          /\ (LevelIs(s, {"A"}) /\ ~LevelAfterIs(s, {"A"}))
             => LET mapped == AssignLevelFromRank(rankings'[s].rank,
                                                  rankings'[s].spread_bps)
                IN  IF s \in SafetySymbols(markets) /\ mapped \in {"C", "D"}
                        THEN LevelAfterIs(s, {"B"})
                        ELSE LevelAfterIs(s, {mapped})
      ]_vars

\* C6 witness: the last cycle demoted a market straight from A to C or D.
C6_Witness ==
    /\ refresh_outcome = "ranked"
    /\ \E s \in demotions_this_cycle : LevelIs(s, {"C", "D"})

\* C7: a ranked market that had a Schedule at B, C or D, is not at A after
\* the cycle and is not lifted by the safety floor, holds after the cycle the
\* level the direct mapping gives for its current rank and spread.
C7_DirectMappingForNonALevels ==
    [][\A s \in Symbols \ SafetySymbols(markets) :
          (RankedCycle(s) /\ LevelIs(s, {"B", "C", "D"}) /\ ~LevelAfterIs(s, {"A"})
             /\ AssignLevelFromRank(rankings'[s].rank, rankings'[s].spread_bps) # "A")
          => LevelAfterIs(s, {AssignLevelFromRank(rankings'[s].rank,
                                                  rankings'[s].spread_bps)})
      ]_vars

\* C8: after a refresh that yielded an empty ranking, every catalog safety
\* asset is at level A or B.
C8_SafetyAssetsAtLeastBAfterEmptyRefresh ==
    refresh_outcome = "empty" =>
        \A s \in SafetySymbols(markets) : LevelIs(s, {"A", "B"})

\* C16: after a ranking refresh that produced a non-empty ranking every
\* catalog market has a Schedule, and a catalog market that had none and is
\* not in the ranking gets level D.
C16_EveryMarketScheduled ==
    refresh_outcome = "ranked" =>
        \A i \in 1..Len(markets) : HasSchedule(markets[i].symbol_raw)

C16_EveryMarketScheduledUnrankedAtD ==
    [](C16_EveryMarketScheduled)
    /\ [][\A i \in 1..Len(markets) :
            LET s == markets[i].symbol_raw
            IN  (~HasSchedule(s) /\ refresh_outcome' = "ranked"
                   /\ s \notin DOMAIN rankings')
                 => /\ HasScheduleAfter(s)
                    /\ schedules'[s] = [level |-> "D", next_due_ms |-> 0,
                                        interval_ms |-> 2000]
        ]_vars

\* the first non-empty ranking has no entry for a market, which is now
\* scheduled at D with no promotion or demotion streak, the ranked market
\* being scheduled too
C16_Witness ==
    /\ refresh_outcome = "ranked"
    /\ \E s \in Symbols :
          /\ s \notin DOMAIN rankings
          /\ LevelIs(s, {"D"})
          /\ eligible_run[s] = 0 /\ demotable_run[s] = 0
    /\ \E s \in DOMAIN rankings : HasSchedule(s)

\* C17: every stored Schedule has a level among A, B, C, D, and its interval
\* is 250 ms when the level is A and 2000 ms otherwise.
C17_IntervalIsFunctionOfLevel ==
    \A s \in DOMAIN schedules :
        /\ schedules[s].level \in {"A", "B", "C", "D"}
        /\ schedules[s].interval_ms = IF schedules[s].level = "A" THEN 250 ELSE 2000

\* Schedules made by two of the paths in one cycle: a promotion to A and
\* the initial assignment of an unranked market
C17_Witness ==
    /\ \E s \in promotions_this_cycle :
          schedules[s].level = "A" /\ schedules[s].interval_ms = 250
    /\ \E s \in DOMAIN schedules :
          /\ s \notin DOMAIN rankings
          /\ schedules[s].level = "D" /\ schedules[s].interval_ms = 2000

-----------------------------------------------------------------------------
(* Properties of the main loop (specification Spec) *)

Elements(seq) == { seq[i] : i \in DOMAIN seq }

\* the samples held anywhere: live buffer, in-flight batch, store
Held == buffer \o batch \o store

Occurrences(sample, seq) == Cardinality({ i \in DOMAIN seq : seq[i] = sample })

\* C3: whatever the order of appends, flushes and insert failures, every
\* accepted sample is at all times in exactly one of the live buffer, the
\* in-flight batch and the store, exactly once (never lost, never
\* duplicated) and nothing else is held; a failing insert puts the whole
\* batch back behind the live buffer, and a committing flush moves the whole
\* batch, re-queued samples included, to the store.
C3_ExactlyOnePlace ==
    /\ Elements(Held) = appended
    /\ \A sample \in appended : Occurrences(sample, Held) = 1

C3_FlushStep ==
    /\ (run_pc = "flush_requeue" /\ run_pc' # "flush_requeue")
          => /\ buffer' = buffer \o batch
             /\ batch' = << >>
             /\ store' = store
    /\ (run_pc = "flush_insert" /\ run_pc' \notin {"flush_insert", "flush_requeue"})
          => /\ store' = store \o batch
             /\ batch' = << >>
             /\ buffer' = buffer

C3_FailedBatchRequeuedAndPersistedOnce ==
    [](C3_ExactlyOnePlace) /\ [][C3_FlushStep]_vars

\* a sample that a failed flush put back and a later flush persisted
C3_Witness ==
    \E sample \in requeued :
        /\ Occurrences(sample, store) = 1
        /\ Occurrences(sample, buffer \o batch) = 0

InStore(sample) == \E i \in DOMAIN store : store[i] = sample

\* run() has returned from its finally block
ReturnedAfterLoop == run_pc = "returned" /\ markets # << >>

SpreadAtMost30(sample) ==
    (sample.ask - sample.bid) * 20000 <= 30 * (sample.bid + sample.ask)

\* the fetch of a task that the loop of lines 905-910 has visited
Visited(k) == tasks[k].state = "visited"

AppendedFor(k) ==
    { sample \in appended : /\ sample.tick = tasks[k].tick
                            /\ sample.symbol_raw = markets[tasks[k].market].symbol_raw }

\* C9: no sample with a spread above 30 basis points is ever in the buffer,
\* the in-flight batch or the store; a fetch whose spread is above 30 yields
\* no sample, and a fetch whose spread is at most 30 yields a sample with
\* that bid and ask, which is buffered.
C9_SpreadAbove30NeverBuffered ==
    /\ \A sample \in Elements(Held) \cup appended :
          sample.spread_bps # None => SpreadAtMost30(sample)
    /\ \A k \in DOMAIN tasks :
          (Visited(k) /\ tasks[k].outcome.kind = "book") =>
              IF SpreadAtMost30(tasks[k].outcome)
                  THEN \E sample \in AppendedFor(k) :
                          /\ sample.bid = tasks[k].outcome.bid
                          /\ sample.ask = tasks[k].outcome.ask
                  ELSE AppendedFor(k) = {}

\* a 29.985 bp sample is in the store, a 30.015 bp fetch of the same tick was
\* skipped
C9_Witness ==
    /\ \E i \in DOMAIN store : store[i].spread_bps = 2998
    /\ \E k \in DOMAIN tasks :
          /\ Visited(k)
          /\ tasks[k].outcome = FetchBook(998, 1001)
          /\ AppendedFor(k) = {}
    /\ skipped_spread_gt_30 > 0

\* C10: every sample collect_sample produced, buffered or persisted, has
\* stale_flag set if its bid or its ask is missing or if its fetch or parse
\* raised (so a sample that is not stale has a bid and an ask, from a fetch
\* that did not raise).
C10_StaleWhenUnpricedOrFetchRaised ==
    \A sample \in Elements(Held) \cup appended :
        (\/ sample.bid = None
         \/ sample.ask = None
         \/ <<sample.tick, sample.symbol_raw>> \in fetch_raised)
            => sample.stale_flag

\* persisted: a stale sample of a fetch that returned no book, a stale sample
\* of a fetch that raised, and a priced sample that is not stale
C10_Witness ==
    /\ \E i \in DOMAIN store :
          /\ store[i].stale_flag
          /\ <<store[i].tick, store[i].symbol_raw>> \notin fetch_raised
    /\ \E i \in DOMAIN store :
          /\ store[i].stale_flag
          /\ <<store[i].tick, store[i].symbol_raw>> \in fetch_raised
    /\ \E i \in DOMAIN store : ~store[i].stale_flag /\ store[i].bid # None

\* a task that has been created and has not finished
Unfinished(k) == tasks[k].state \in {"waiting", "fetching"}

\* a step that creates the sampling tasks of a tick
DispatchStep == run_pc = "select" /\ run_pc' # "select"

\* C12: no market is double-fired: the tasks of a tick are for pairwise
\* distinct markets, tasks are unfinished only while run() awaits the gather
\* of their tick, and a tick dispatches its tasks only when no task of an
\* earlier tick is unfinished.
C12_TasksOfATick ==
    /\ \A j, k \in DOMAIN tasks :
          j # k => /\ tasks[j].market # tasks[k].market
                   /\ markets[tasks[j].market].symbol_raw
                         # markets[tasks[k].market].symbol_raw
    /\ \A k \in DOMAIN tasks : Unfinished(k) => run_pc = "gather" /\ tasks[k].tick = ticks

C12_NoDoubleFire ==
    [](C12_TasksOfATick)
    /\ [][DispatchStep => \A k \in DOMAIN tasks : ~Unfinished(k)]_vars

\* in the second tick, both markets are dispatched again, one fetch being in
\* progress and the other waiting, after the first tick's tasks finished
C12_Witness ==
    /\ ticks = 2
    /\ run_pc = "gather"
    /\ Len(tasks) = 2
    /\ \E j, k \in DOMAIN tasks : tasks[j].state = "fetching" /\ tasks[k].state = "waiting"
    /\ \E sample \in appended : sample.tick = 1

\* C13: at every moment the number of snapshot fetches in flight is at most
\* max_concurrent_snapshots, however many markets are due.
C13_FetchesInFlightBounded ==
    Cardinality({ k \in DOMAIN tasks : tasks[k].state = "fetching" })
        <= MaxConcurrentSnapshots

\* the limit is reached and a due market's task waits for the semaphore
C13_Witness ==
    /\ Cardinality({ k \in DOMAIN tasks : tasks[k].state = "fetching" })
          = MaxConcurrentSnapshots
    /\ \E k \in DOMAIN tasks : tasks[k].state = "waiting"

\* the loop of lines 905-910 is over for the tasks of the tick
TickSamplesHandled == run_pc \in {"flush_test", "cleanup", "status", "sleep"}

\* C14: a fetch that raises does not abort its tick: when the tick has
\* handled its samples, every due market whose fetch raised has a stale
\* sample without bid and ask in the appended samples, and every other due
\* market has its sample appended unless its spread is above 30 bps.
C14_SamplesOfATick ==
    /\ TickSamplesHandled => \A k \in DOMAIN tasks : Visited(k)
    /\ \A k \in DOMAIN tasks :
          Visited(k) =>
              CASE tasks[k].outcome.kind = "raise" ->
                       \E sample \in AppendedFor(k) :
                           sample.stale_flag /\ sample.bid = None /\ sample.ask = None
                [] tasks[k].outcome.kind = "nobook" ->
                       \E sample \in AppendedFor(k) : sample.stale_flag
                [] OTHER ->
                       SpreadAtMost30(tasks[k].outcome) =>
                           \E sample \in AppendedFor(k) :
                               /\ ~sample.stale_flag
                               /\ sample.bid = tasks[k].outcome.bid

\* while the tasks run and their results are handled, the only way on is to
\* the rest of the tick, and no exception leaves the loop
C14_TickGoesOn ==
    run_pc \in {"gather", "append"} =>
        /\ run_pc' \in {"gather", "append", "flush_test"}
        /\ loop_raised' = loop_raised

C14_RaisingFetchDoesNotAbortTick ==
    [](C14_SamplesOfATick) /\ [][C14_TickGoesOn]_vars

\* a tick in which the first market's fetch raised and the second market's
\* priced sample was appended all the same
C14_Witness ==
    /\ TickSamplesHandled
    /\ Len(tasks) = 2
    /\ tasks[1].outcome.kind = "raise"
    /\ tasks[2].outcome.kind = "book"
    /\ \E i \in DOMAIN buffer :
          /\ buffer[i].tick = tasks[2].tick
          /\ buffer[i].symbol_raw = markets[tasks[2].market].symbol_raw
          /\ ~buffer[i].stale_flag
    /\ \E i \in DOMAIN buffer :
          /\ buffer[i].tick = tasks[1].tick
          /\ buffer[i].symbol_raw = markets[tasks[1].market].symbol_raw
          /\ buffer[i].stale_flag

\* run() is over: it returned, or the final status write raised out of it
RunOver == run_pc \in {"returned", "raised"}

\* C15: once an exception has left a tick of the main loop, no further tick
\* is started, and when run() is over exactly one final flush_buffer and
\* then one write_status_json have been performed (run() returns if that
\* write returns).
C15_AfterLoopException ==
    loop_raised =>
        /\ run_pc \in {"finally", "flush_swap", "flush_insert", "flush_requeue",
                       "final_status", "returned", "raised"}
        /\ flush_caller = "tick" => run_pc = "finally"
        /\ run_pc = "returned" => finally_steps = <<"flush", "status">>
        /\ run_pc = "raised" => finally_steps = <<"flush", "status raised">>

C15_FinalFlushAndStatusAfterLoopException ==
    [](C15_AfterLoopException)
    /\ [][loop_raised => ticks' = ticks /\ tasks' = tasks]_vars

\* the status write of a tick raised with samples still buffered; the final
\* flush persisted them and the final status write returned
C15_Witness ==
    /\ loop_raised
    /\ run_pc = "returned"
    /\ ~stop_event
    /\ finally_steps = <<"flush", "status">>
    /\ flush_outcome = "committed"
    /\ store # << >>

-----------------------------------------------------------------------------
(* Properties of the scheduler (specification SpecSched) *)

\* a step that is a call of _get_markets_due_for_sampling
SelectionStep == run_pc = "select" /\ run_pc' = "loop"

\* the catalog positions the claim C11 calls due at the clock reading
DuePositions ==
    { i \in 1..Len(markets) :
        \/ markets[i].symbol_raw \notin DOMAIN schedules
        \/ schedules[markets[i].symbol_raw].next_due_ms <= clock_ms }

\* C11: a selection at time now returns, in catalog order, exactly the
\* catalog markets that have no Schedule or whose next_due_ms <= now; it sets
\* next_due_ms = now + interval_ms for each selected market that has a
\* Schedule and leaves every other Schedule (and every other field) as it
\* was, creating none.
C11_DueSelection ==
    [][SelectionStep =>
         /\ { due_markets'[k] : k \in DOMAIN due_markets' } = DuePositions
         /\ \A j, k \in DOMAIN due_markets' : j < k => due_markets'[j] < due_markets'[k]
         /\ DOMAIN schedules' = DOMAIN schedules
         /\ \A i \in 1..Len(markets) :
               LET s == markets[i].symbol_raw
               IN  s \in DOMAIN schedules =>
                     IF i \in DuePositions
                         THEN schedules'[s] =
                                [level |-> schedules[s].level,
                                 next_due_ms |-> clock_ms + schedules[s].interval_ms,
                                 interval_ms |-> schedules[s].interval_ms]
                         ELSE schedules'[s] = schedules[s]
      ]_vars

\* the last selection, at or after the instant a level-A market fell due, took
\* that market and advanced it by 250 ms, and left out a level-B market that
\* is due later
C11_Witness ==
    /\ run_pc = "loop"
    /\ Len(due_markets) = 1
    /\ \E s \in DOMAIN schedules :
          /\ s = markets[due_markets[1]].symbol_raw
          /\ schedules[s].level = "A"
          /\ schedules[s].next_due_ms = clock_ms + 250
    /\ \E s \in DOMAIN schedules :
          /\ schedules[s].level = "B"
          /\ schedules[s].next_due_ms > clock_ms
          /\ schedules[s].next_due_ms < clock_ms + 2000

-----------------------------------------------------------------------------
(* Properties of the ranking (specification SpecRank) *)

\* the markets that have a row in the query result
RowSymbols == { latest_samples[k].symbol_raw : k \in DOMAIN latest_samples }

\* the position of a market's most recent row in the query result
FirstRow(s) ==
    CHOOSE k \in DOMAIN latest_samples :
        /\ latest_samples[k].symbol_raw = s
        /\ \A j \in 1..(k - 1) : latest_samples[j].symbol_raw # s

\* the position of a market in the catalog
CatalogPosition(s) == CHOOSE i \in 1..Len(markets) : markets[i].symbol_raw = s

\* C18: a computed ranking has one entry for each of the N markets that have
\* a row, and the ranks are pairwise distinct and are exactly 1..N.
C18_RanksArePermutation ==
    calc_outcome = "computed" =>
        /\ DOMAIN calc_rankings = RowSymbols
        /\ \A a, b \in RowSymbols :
              a # b => calc_rankings[a].rank # calc_rankings[b].rank
        /\ { calc_rankings[s].rank : s \in RowSymbols } = 1..Cardinality(RowSymbols)

\* three markets ranked from three rows, two of them with one score
C18_Witness ==
    /\ calc_outcome = "computed"
    /\ Cardinality(DOMAIN calc_rankings) = 3
    /\ \E a, b \in DOMAIN calc_rankings :
          a # b /\ calc_rankings[a].score = calc_rankings[b].score

MarketRow(s) == latest_samples[FirstRow(s)]

\* the value of a market is present and strictly greater than the value of
\* every other market that has one
StrictlyGreatest(s, value(_)) ==
    /\ value(MarketRow(s)) # None
    /\ \A u \in DOMAIN calc_rankings \ {s} :
          value(MarketRow(u)) = None \/ value(MarketRow(u)) < value(MarketRow(s))

VolumeOf(row) == row.volume_24h_usd
OpenInterestOf(row) == row.open_interest_usd
SpreadOf(row) == row.spread_bps

\* C20 (as stated): the percentile rank of a value that is strictly greater
\* than all other elements of its value set is 1.0.
C20_StrictMaximumHasPercentileOne ==
    calc_outcome = "computed" =>
        \A s \in DOMAIN calc_rankings :
            /\ StrictlyGreatest(s, VolumeOf)
                  => calc_rankings[s].volume_norm.num = calc_rankings[s].volume_norm.den
            /\ StrictlyGreatest(s, OpenInterestOf)
                  => calc_rankings[s].oi_norm.num = calc_rankings[s].oi_norm.den
            /\ StrictlyGreatest(s, SpreadOf)
                  => calc_rankings[s].spread_norm.num = calc_rankings[s].spread_norm.den

\* how many markets have a value
CountPresent(value(_)) ==
    Cardinality({ u \in DOMAIN calc_rankings : value(MarketRow(u)) # None })

\* C20 (amended): the percentile rank of a value that is strictly greater
\* than all other elements of its value set of n elements is
\* (n - 1/2) / n = (2n - 1) / (2n), which is less than 1.0.
C20_StrictMaximumHasPercentileBelowOne ==
    calc_outcome = "computed" =>
        \A s \in DOMAIN calc_rankings :
            /\ StrictlyGreatest(s, VolumeOf)
                  => calc_rankings[s].volume_norm =
                        Fraction(2 * CountPresent(VolumeOf) - 1, 2 * CountPresent(VolumeOf))
            /\ StrictlyGreatest(s, OpenInterestOf)
                  => calc_rankings[s].oi_norm =
                        Fraction(2 * CountPresent(OpenInterestOf) - 1,
                                 2 * CountPresent(OpenInterestOf))
            /\ StrictlyGreatest(s, SpreadOf)
                  => calc_rankings[s].spread_norm =
                        Fraction(2 * CountPresent(SpreadOf) - 1, 2 * CountPresent(SpreadOf))

\* three markets have a volume, one of them the strictly greatest: its
\* percentile is 5/6
C20_Witness ==
    /\ calc_outcome = "computed"
    /\ CountPresent(VolumeOf) = 3
    /\ \E s \in DOMAIN calc_rankings :
          /\ StrictlyGreatest(s, VolumeOf)
          /\ calc_rankings[s].volume_norm = Fraction(5, 6)

-----------------------------------------------------------------------------
(* The first ranking cycle (SpecLevels) *)

\* C21: a ranking cycle that starts with no Schedule at all (the markets were
\* just discovered) leaves every market it ranked in the top 100 at level A
\* when its spread is present and at most 15 bps, and at level B when its
\* spread is missing or above 15 bps.
C21_FirstCycleTop100 ==
    [][\A s \in Symbols :
          (schedules = EmptyDict /\ RankedCycle(s) /\ rankings'[s].rank <= 100)
          => IF rankings'[s].spread_bps # None
                /\ rankings'[s].spread_bps <= CentiBps(15)
             THEN LevelAfterIs(s, {"A"})
             ELSE LevelAfterIs(s, {"B"})]_vars

\* a first cycle has put a top-100 market with a 15 bps spread at A without
\* any promotion (its first eligible cycle), and left the unranked market at D
C21_Witness ==
    /\ refresh_outcome = "ranked"
    /\ promotions_this_cycle = {}
    /\ \E s \in DOMAIN rankings :
          /\ rankings[s].rank <= 100
          /\ rankings[s].spread_bps = CentiBps(15)
          /\ LevelIs(s, {"A"})
          /\ eligible_run[s] = 1
          /\ promotion_counters[s] = 1
          /\ \A u \in Symbols \ {s} : u \notin DOMAIN rankings /\ LevelIs(u, {"D"})

-----------------------------------------------------------------------------
(* The stored ranking and the unranked markets (SpecLevels) *)

\* C29: after every ranking refresh the stored ranking map (self.rankings) is
\* exactly the map computed in that cycle; here for the cycles that computed
\* the empty map: no entry of an earlier ranking is still stored.
C29_StoredRankingIsThisCycles ==
    refresh_outcome = "empty" => rankings = EmptyDict

\* the step is a ranking cycle that produced no entry for s
UnrankedCycle(s) ==
    \/ refresh_outcome' = "ranked" /\ s \notin DOMAIN rankings'
    \/ refresh_outcome' = "empty"

\* the safety-asset floor of lines 517-524 applies to the Schedule of s
SafetyFloorApplies(s) ==
    s \in SafetySymbols(markets) /\ LevelIs(s, {"C", "D"})

-----------------------------------------------------------------------------
(* A ranking that stops changing (SpecStable): any ranking cycles, and then *)
(* cycles whose computed map is the map of the cycle before.                *)

MaxStableCycles == 6

\* the map _calculate_rankings returned in the last cycle
LastComputed == IF refresh_outcome = "ranked" THEN rankings ELSE EmptyDict

\* a cycle while the ranking still changes
StableFreeCycle ==
    /\ stable_cycles = 0
    /\ RankingCycle

\* a cycle that computes the map of the cycle before
StableRepeatCycle ==
    /\ refresh_outcome # "none"
    /\ stable_cycles < MaxStableCycles
    /\ RefreshRankings(LastComputed)
    /\ stable_cycles' = stable_cycles + 1
    /\ UNCHANGED <<markets, runVars, schedVars, rankVars, fallback_active,
                   spot_meta, perp_meta, discover_outcome, storageVars,
                   buffer_lock, lock_pc,
                   retryVars, refreshVars>>

NextStable ==
    \/ StableFreeCycle
    \/ StableRepeatCycle

SpecStable == InitLevels /\ [][NextStable]_vars

\* C22: once three cycles have computed the map of the cycle before them,
\* every further such cycle leaves every market's level as it was (and gives
\* no market a Schedule it did not have).
C22_LevelsConverge ==
    [][(stable_cycles >= 3 /\ stable_cycles' = stable_cycles + 1)
       => \A s \in Symbols :
             /\ HasScheduleAfter(s) <=> HasSchedule(s)
             /\ HasSchedule(s) => schedules'[s].level = schedules[s].level]_vars

\* the ranking has been the same for five cycles, and during them a market
\* was promoted to A (its streak reached three and its counter was reset)
\* while another one stayed where it was
C22_Witness ==
    /\ stable_cycles = 5
    /\ refresh_outcome = "ranked"
    /\ \E s \in DOMAIN rankings :
          /\ LevelIs(s, {"A"})
          /\ eligible_run[s] = 3
          /\ promotion_counters[s] = 0
    /\ \E u \in DOMAIN rankings : LevelIs(u, {"B", "C", "D"})

-----------------------------------------------------------------------------
(* The fallback pass on its own (SpecFallback): _apply_fallback_safety      *)
(* applied to the schedule maps the collector can hold.                     *)

\* lines 498-515: the pass is in degraded mode (it then logs the warning of
\* lines 530-534)
FallbackActive(rk, mk) ==
    \/ Cardinality(DOMAIN rk) < 10
    \/ \E s \in SafetySymbols(mk) : s \notin DOMAIN rk

\* the schedule maps: a market has no Schedule, or one of a level with the
\* interval of that level, due at once or later
ScheduleInputs ==
    LET cases == { MarketSchedule(l, d, GetIntervalForLevel(l)) :
                       l \in {"A", "B", "C", "D"}, d \in {0, 1250} }
    IN  UNION { [D -> cases] : D \in SUBSET Symbols }

InitFallback ==
    /\ markets = Catalog
    /\ schedules \in ScheduleInputs
    /\ rankings = EmptyDict
    /\ promotion_counters = [s \in Symbols |-> 0]
    /\ demotion_counters = [s \in Symbols |-> 0]
    /\ promotions_this_cycle = {}
    /\ demotions_this_cycle = {}
    /\ refresh_outcome = "none"
    /\ eligible_run = [s \in Symbols |-> 0]
    /\ demotable_run = [s \in Symbols |-> 0]
    /\ RunIdle
    /\ clock_ms = 0
    /\ due_markets = << >>
    /\ latest_samples = << >>
    /\ calc_rankings \in { rk \in RankingInputs :
                             \A s \in DOMAIN rk : rk[s].spread_bps = CentiBps(15) }
    /\ calc_outcome = "none"
    /\ AuxIdle

\* lines 496-534, called with the map the cycle computed (lines 541 and 546)
FallbackPass ==
    /\ schedules' = ApplyFallbackSafety(calc_rankings, schedules, markets)
    /\ fallback_active' = IF FallbackActive(calc_rankings, markets)
                              THEN "active" ELSE "inactive"
    /\ UNCHANGED <<markets, rankings, promotion_counters, demotion_counters,
                   promotions_this_cycle, demotions_this_cycle, refresh_outcome,
                   eligible_run, demotable_run, runVars, schedVars, rankVars,
                   stable_cycles, spot_meta, perp_meta, discover_outcome, storageVars,
                   buffer_lock, lock_pc,
                   retryVars, refreshVars>>

SpecFallback == InitFallback /\ [][FallbackPass]_vars

\* C28: a fallback pass changes the Schedule of no market whose base is not a
\* safety asset (nor gives it one), changes no safety asset that is at A or
\* B, and leaves at A only markets that were at A; the passes of the model
\* are all in degraded mode (fewer than 10 ranked markets).
C28_FallbackFrame ==
    [][\A s \in Symbols :
          /\ HasScheduleAfter(s) <=> HasSchedule(s)
          /\ (HasSchedule(s) /\ s \notin SafetySymbols(markets))
                => schedules'[s] = schedules[s]
          /\ LevelIs(s, {"A", "B"}) => schedules'[s] = schedules[s]
          /\ LevelAfterIs(s, {"A"}) => LevelIs(s, {"A"})]_vars

\* a pass in degraded mode, with no market ranked, has lifted the safety
\* asset to B and left the other market, not a safety asset, at D
C28_Witness ==
    /\ fallback_active = "active"
    /\ calc_rankings = EmptyDict
    /\ \E s \in SafetySymbols(markets) :
          HasSchedule(s) /\ schedules[s] = MarketSchedule("B", 0, LEVEL_B_INTERVAL_MS)
    /\ \E u \in Symbols \ SafetySymbols(markets) :
          HasSchedule(u) /\ schedules[u] = MarketSchedule("D", 1250, LEVEL_D_INTERVAL_MS)

-----------------------------------------------------------------------------
(* Discovery (SpecDiscover): discover_markets applied to what the two       *)
(* metadata calls can do.  A call raises, or returns a universe; an entry   *)
(* of a universe yields a market, is skipped (lines 186-187, 197-198,       *)
(* 247-252) or makes its processing raise (a malformed entry).              *)

MaxUniverse == 2

\* the responses of a metadata call whose well-formed entries are the markets mk
MetaInputs(mk) ==
    LET entries == { [kind |-> "market", base |-> m.base, name |-> m.symbol_raw] :
                         m \in mk }
                   \cup { [kind |-> k, base |-> "", name |-> ""] :
                              k \in {"skip", "raises"} }
    IN  {NoMeta}
        \cup { [fetch |-> "ok", universe |-> u] :
                   u \in UNION { [1..n -> entries] : n \in 0..MaxUniverse } }

\* lines 185-216 and 246-271: the markets one loop appends before it ends or
\* an entry raises
RECURSIVE ProcessUniverse(_, _)
ProcessUniverse(universe, market_type) ==
    IF universe = << >> THEN << >>
    ELSE LET entry == Head(universe)
         IN  IF entry.kind = "raises" THEN << >>
             ELSE IF entry.kind = "skip"
                 THEN ProcessUniverse(Tail(universe), market_type)
             ELSE <<MarketInfo(entry.base, market_type, entry.name)>>
                  \o ProcessUniverse(Tail(universe), market_type)

\* one try block (lines 156-226 or 229-280): what it appends to markets;
\* its except clause swallows whatever the call or the loop raised
DiscoverHalf(meta, market_type) ==
    IF meta.fetch = "raises" THEN << >>
    ELSE ProcessUniverse(meta.universe, market_type)

\* the body of the try block ran to its end
HalfCompleted(meta) ==
    /\ meta.fetch = "ok"
    /\ \A i \in DOMAIN meta.universe : meta.universe[i].kind # "raises"

\* both halves inside one try block
DiscoverMarketsInOneTry(spot, perp) ==
    IF HalfCompleted(spot)
        THEN DiscoverHalf(spot, "SPOT") \o DiscoverHalf(perp, "PERP")
        ELSE DiscoverHalf(spot, "SPOT")

\* lines 151-283
DiscoverMarkets(spot, perp) ==
    DiscoverHalf(spot, "SPOT") \o DiscoverHalf(perp, "PERP")

InitDiscover ==
    /\ markets = << >>
    /\ LevelsIdle
    /\ RunIdle
    /\ clock_ms = 0
    /\ due_markets = << >>
    /\ latest_samples = << >>
    /\ calc_rankings = EmptyDict
    /\ calc_outcome = "none"
    /\ stable_cycles = 0
    /\ fallback_active = "none"
    /\ spot_meta \in MetaInputs({ MarketInfo("PURR", "SPOT", "PURR/USDC"),
                                  MarketInfo("HYPE", "SPOT", "HYPE/USDC") })
    /\ perp_meta \in MetaInputs({ MarketInfo("BTC", "PERP", "BTC"),
                                  MarketInfo("ETH", "PERP", "ETH") })
    /\ discover_outcome = "none"
    /\ StorageIdle
    /\ buffer_lock = "free"
    /\ lock_pc = "idle"
    /\ RetryIdle
    /\ last_ranking_time = 0
    /\ refresh_times = << >>

\* line 873: self.markets = await self.discover_markets()
Discover ==
    /\ discover_outcome = "none"
    /\ markets' = DiscoverMarkets(spot_meta, perp_meta)
    /\ discover_outcome' = "returned"
    /\ UNCHANGED <<levelVars, runVars, schedVars, rankVars, stable_cycles,
                   fallback_active, spot_meta, perp_meta, storageVars,
                   buffer_lock, lock_pc,
                   retryVars, refreshVars>>

SpecDiscover == InitDiscover /\ [][Discover]_vars

\* the markets of the well-formed entries of a universe, in its order
WellFormedMarkets(meta, market_type) ==
    LET wf == SelectSeq(meta.universe, LAMBDA e : e.kind = "market")
    IN  [i \in 1..Len(wf) |-> MarketInfo(wf[i].base, market_type, wf[i].name)]

\* C26: discovery returns (it never raises), and its halves fail on their
\* own: when the spot metadata call raises, the result is exactly the perp
\* markets of a perp half that ran to its end, and when the perp metadata
\* call raises, exactly the spot markets of a spot half that ran to its end;
\* when both raise the result is empty.
C26_DiscoveryHalvesIndependent ==
    /\ discover_outcome \in {"none", "returned"}
    /\ discover_outcome = "returned" =>
          /\ (spot_meta.fetch = "raises" /\ HalfCompleted(perp_meta))
                => markets = WellFormedMarkets(perp_meta, "PERP")
          /\ (perp_meta.fetch = "raises" /\ HalfCompleted(spot_meta))
                => markets = WellFormedMarkets(spot_meta, "SPOT")
          /\ (spot_meta.fetch = "raises" /\ perp_meta.fetch = "raises")
                => markets = << >>

\* the spot metadata call raised and discovery returned the two perp markets
C26_Witness ==
    /\ discover_outcome = "returned"
    /\ spot_meta.fetch = "raises"
    /\ perp_meta.fetch = "ok"
    /\ Len(markets) = 2
    /\ \A i \in 1..2 : markets[i].market_type = "PERP"
    /\ markets[1].symbol_raw # markets[2].symbol_raw

-----------------------------------------------------------------------------
(* The sample table over a day (SpecStorage): rows are committed, time      *)
(* passes, retention passes and row counts run.  Times are in ms since the  *)
(* construction of the collector (the code holds seconds as floats and      *)
(* truncates the cutoff to whole ms, lines 776 and 790).                    *)

MaxStored == 2
MaxBusyReads == 1

RetentionMs == 24 * 3600 * 1000

\* run()'s parameter cleanup_sec, at its default
CleanupMs == 300 * 1000

\* the instants at which something happens
Instants == <<0, 1, 299999, 300000, 86400000, 86400001, 86700000>>

\* a row of the table; only its timestamp matters here
StoredRow(ts_ms) == [ts_ms |-> ts_ms]

\* a delete that also takes the rows at the cutoff
DeleteUpToCutoff(rows, cutoff_ms) ==
    SelectSeq(rows, LAMBDA r : ~(r.ts_ms <= cutoff_ms))

\* line 780: filter(MarketSample.ts_ms < cutoff_ms).delete()
DeleteOlderThan(rows, cutoff_ms) ==
    SelectSeq(rows, LAMBDA r : ~(r.ts_ms < cutoff_ms))

\* line 792: filter(MarketSample.ts_ms >= cutoff_ms).count()
CountSince(rows, cutoff_ms) ==
    Len(SelectSeq(rows, LAMBDA r : r.ts_ms >= cutoff_ms))

\* a gate that closes only for the first ms after a pass
CleanupNotDueWithinOneMs(now, last) == now - last < 1

\* line 772: now - self.last_cleanup_time < cleanup_sec
CleanupNotDue(now, last) == now - last < CleanupMs

\* a pass that leaves the time of the last pass as it was
LastCleanupTimeKept(now, last) == last

\* line 775: self.last_cleanup_time = now, before the delete is tried
LastCleanupTime(now, last) == now

\* time passes
StorageAdvance ==
    /\ \E i \in DOMAIN Instants :
          /\ Instants[i] > clock_ms
          /\ clock_ms' = Instants[i]
    /\ UNCHANGED <<markets, levelVars, runVars, due_markets, rankVars, auxVars>>

\* lines 746-750: a flush commits a sample taken now
StorageInsert ==
    /\ Len(store) < MaxStored
    /\ store' = Append(store, StoredRow(clock_ms))
    /\ UNCHANGED <<markets, levelVars, run_pc, stop_event, duration_over, buffer, batch, tasks,
                   skipped_spread_gt_30, ticks, flush_caller, finally_steps,
                   appended, fetch_raised, requeued, flush_outcome, loop_raised,
                   schedVars, rankVars, auxVars>>

\* lines 771-773: the cleanup interval has not elapsed
CleanupSkipped ==
    /\ CleanupNotDue(clock_ms, last_cleanup_time)
    /\ cleanup_outcome' = "skipped"
    /\ UNCHANGED <<markets, levelVars, runVars, schedVars, rankVars,
                   stable_cycles, fallback_active, spot_meta, perp_meta,
                   discover_outcome, last_cleanup_time, cleanup_deleted,
                   busy_reads, db_rows_24h, count_outcome,
                   buffer_lock, lock_pc,
                   retryVars, refreshVars>>

\* lines 775-783: the pass deletes and commits
CleanupDeletes ==
    /\ ~CleanupNotDue(clock_ms, last_cleanup_time)
    /\ last_cleanup_time' = LastCleanupTime(clock_ms, last_cleanup_time)
    /\ store' = DeleteOlderThan(store, clock_ms - RetentionMs)
    /\ cleanup_deleted' = Len(store) - Len(store')
    /\ cleanup_outcome' = "deleted"
    /\ UNCHANGED <<markets, levelVars, run_pc, stop_event, duration_over, buffer, batch, tasks,
                   skipped_spread_gt_30, ticks, flush_caller, finally_steps,
                   appended, fetch_raised, requeued, flush_outcome, loop_raised,
                   schedVars, rankVars,
                   stable_cycles, fallback_active, spot_meta, perp_meta,
                   discover_outcome, busy_reads, db_rows_24h, count_outcome,
                   buffer_lock, lock_pc,
                   retryVars, refreshVars>>

\* lines 775-785: the delete or the commit raises; the error is logged
CleanupRaises ==
    /\ ~CleanupNotDue(clock_ms, last_cleanup_time)
    /\ last_cleanup_time' = LastCleanupTime(clock_ms, last_cleanup_time)
    /\ cleanup_deleted' = 0
    /\ cleanup_outcome' = "raised"
    /\ UNCHANGED <<markets, levelVars, runVars, schedVars, rankVars,
                   stable_cycles, fallback_active, spot_meta, perp_meta,
                   discover_outcome, busy_reads, db_rows_24h, count_outcome,
                   buffer_lock, lock_pc,
                   retryVars, refreshVars>>

\* the store becomes busy for the next read attempts
StorageBusy ==
    /\ busy_reads = 0
    /\ \E n \in 1..MaxBusyReads : busy_reads' = n
    /\ UNCHANGED <<markets, levelVars, runVars, schedVars, rankVars,
                   stable_cycles, fallback_active, spot_meta, perp_meta,
                   discover_outcome, last_cleanup_time, cleanup_outcome,
                   cleanup_deleted, db_rows_24h, count_outcome,
                   buffer_lock, lock_pc,
                   retryVars, refreshVars>>

\* lines 787-796: one attempt; a busy store makes it raise, and 0 is returned
GetDbRows24h ==
    /\ IF busy_reads > 0
          THEN /\ busy_reads' = busy_reads - 1
               /\ db_rows_24h' = 0
               /\ count_outcome' = "failed"
          ELSE /\ busy_reads' = busy_reads
               /\ db_rows_24h' = CountSince(store, clock_ms - RetentionMs)
               /\ count_outcome' = "counted"
    /\ UNCHANGED <<markets, levelVars, runVars, schedVars, rankVars,
                   stable_cycles, fallback_active, spot_meta, perp_meta,
                   discover_outcome, last_cleanup_time, cleanup_outcome,
                   cleanup_deleted,
                   buffer_lock, lock_pc,
                   retryVars, refreshVars>>

SpecStorage ==
    InitLevels
    /\ [][\/ StorageAdvance
          \/ StorageInsert
          \/ CleanupSkipped
          \/ CleanupDeletes
          \/ CleanupRaises
          \/ StorageBusy
          \/ GetDbRows24h]_vars

\* the number of rows of the table that carry the timestamp ts
RowsAt(rows, ts) == Cardinality({ i \in DOMAIN rows : rows[i].ts_ms = ts })

\* the step is a retention pass (the only steps that move last_cleanup_time)
RetentionPass == last_cleanup_time' # last_cleanup_time

\* C23: a retention pass run at time now removes no row whose ts_ms is the
\* cutoff now - 24h or newer, and when its delete commits no row with
\* ts_ms < now - 24h is left: it deletes exactly the rows older than the cutoff.
C23_RetentionDeletesExactlyOlderRows ==
    [][RetentionPass
       => LET cutoff_ms == clock_ms - RetentionMs
          IN  /\ \A i \in DOMAIN store :
                    store[i].ts_ms >= cutoff_ms
                    => RowsAt(store', store[i].ts_ms) = RowsAt(store, store[i].ts_ms)
              /\ \A j \in DOMAIN store' : RowsAt(store, store'[j].ts_ms) > 0
              /\ cleanup_outcome' = "deleted"
                    => \A j \in DOMAIN store' : store'[j].ts_ms >= cutoff_ms]_vars

\* a pass has just deleted one row, one ms older than the cutoff, and kept
\* the row whose ts_ms is the cutoff
C23_Witness ==
    /\ cleanup_outcome = "deleted"
    /\ last_cleanup_time = clock_ms
    /\ cleanup_deleted = 1
    /\ Len(store) = 1
    /\ store[1].ts_ms = clock_ms - RetentionMs

\* C24: a 24h row-count read that meets a store busy for fewer than three
\* attempts goes on trying until an attempt succeeds, and returns the true
\* count of the rows with ts_ms >= now - 24h.
C24_BusyReadIsRetried ==
    [][(busy_reads \in 1..2 /\ busy_reads' < busy_reads)
       => /\ busy_reads' = 0
          /\ db_rows_24h' = CountSince(store, clock_ms - RetentionMs)]_vars

-----------------------------------------------------------------------------
(* Stopping (SpecFair) *)

\* the loop has been told to end: the stop signal is set or the duration
\* bound is reached
EndRequested == stop_event \/ duration_over

\* C25: once the stop signal is set or the duration bound is reached, no new
\* tick starts (the tick in progress is the last one: the next loop test
\* leaves the loop), and run() terminates: it returns, or the final status
\* write raises.
C25_StopEndsTheRun ==
    /\ [][EndRequested => ticks' = ticks]_vars
    /\ [][(EndRequested /\ run_pc = "loop" /\ run_pc' # run_pc)
             => run_pc' = "finally"]_vars
    /\ (EndRequested ~> RunOver)

\* run() has returned after a stop signal, with one tick run, its samples
\* stored and both steps of the finally block done
C25_Witness ==
    /\ stop_event
    /\ ~duration_over
    /\ run_pc = "returned"
    /\ ticks = 1
    /\ Len(store) > 0
    /\ Len(finally_steps) = 2

-----------------------------------------------------------------------------
(* The buffer lock (SpecLock): add_to_buffer and flush_buffer step by step. *)
(* Both are awaited by run() only, one call after the other (lines 910, 916 *)
(* and 931), so one coroutine takes and releases the lock; the insert is a  *)
(* synchronous call (lines 746-750).  A sample is its number.               *)

MaxAppends == 5

\* a flusher that goes on to the insert without leaving the locked block
AfterSwapKeepingLock == "insert"

\* line 741: after the swap the "async with" block of line 735 is left
AfterSwap == "swap_release"

\* lines 735, 754 and 765: "async with self.buffer_lock" is entered, by
\* add_to_buffer or flush_buffer when called, or by the except clause
LockAcquire(op) ==
    /\ buffer_lock = "free"
    /\ \/ lock_pc = "idle" /\ op = "add" /\ Cardinality(appended) < MaxAppends
       \/ lock_pc = "idle" /\ op = "swap"
       \/ lock_pc = "insert_raised" /\ op = "requeue"
    /\ buffer_lock' = "held"
    /\ lock_pc' = op
    /\ UNCHANGED <<markets, levelVars, runVars, schedVars, rankVars,
                   stable_cycles, fallback_active, spot_meta, perp_meta,
                   discover_outcome, storageVars,
                   retryVars, refreshVars>>

\* lines 766-767
LockedAppend ==
    /\ lock_pc = "add"
    /\ \E sample \in {Cardinality(appended) + 1} :
          /\ buffer' = Append(buffer, sample)
          /\ appended' = appended \cup {sample}
    /\ lock_pc' = "add_release"
    /\ UNCHANGED <<markets, levelVars, run_pc, stop_event, duration_over, batch,
                   store, tasks, skipped_spread_gt_30, ticks, flush_caller,
                   finally_steps, fetch_raised, requeued, flush_outcome,
                   loop_raised, schedVars, rankVars,
                   stable_cycles, fallback_active, spot_meta, perp_meta,
                   discover_outcome, storageVars, buffer_lock,
                   retryVars, refreshVars>>

\* lines 736-741
LockedSwap ==
    /\ lock_pc = "swap"
    /\ IF buffer = << >>
          THEN /\ lock_pc' = "empty_release"
               /\ UNCHANGED <<buffer, batch>>
          ELSE /\ batch' = buffer
               /\ buffer' = << >>
               /\ lock_pc' = AfterSwap
    /\ UNCHANGED <<markets, levelVars, run_pc, stop_event, duration_over,
                   store, tasks, skipped_spread_gt_30, ticks, flush_caller,
                   finally_steps, appended, fetch_raised, requeued, flush_outcome,
                   loop_raised, schedVars, rankVars,
                   stable_cycles, fallback_active, spot_meta, perp_meta,
                   discover_outcome, storageVars, buffer_lock,
                   retryVars, refreshVars>>

\* lines 755-756
LockedRequeue ==
    /\ lock_pc = "requeue"
    /\ buffer' = Requeue(buffer, batch)
    /\ batch' = << >>
    /\ lock_pc' = "requeue_release"
    /\ UNCHANGED <<markets, levelVars, run_pc, stop_event, duration_over,
                   store, tasks, skipped_spread_gt_30, ticks, flush_caller,
                   finally_steps, appended, fetch_raised, requeued, flush_outcome,
                   loop_raised, schedVars, rankVars,
                   stable_cycles, fallback_active, spot_meta, perp_meta,
                   discover_outcome, storageVars, buffer_lock,
                   retryVars, refreshVars>>

\* the "async with" block is left: lines 737 (return 0), 741, 756 and 767
LockRelease ==
    /\ lock_pc \in {"add_release", "empty_release", "swap_release", "requeue_release"}
    /\ buffer_lock' = "free"
    /\ lock_pc' = IF lock_pc = "swap_release" THEN "insert" ELSE "idle"
    /\ UNCHANGED <<markets, levelVars, runVars, schedVars, rankVars,
                   stable_cycles, fallback_active, spot_meta, perp_meta,
                   discover_outcome, storageVars,
                   retryVars, refreshVars>>

\* lines 746-750: the batch is committed
LockInsertCommits ==
    /\ lock_pc = "insert"
    /\ store' = Commit(store, batch)
    /\ batch' = << >>
    /\ lock_pc' = "idle"
    /\ UNCHANGED <<markets, levelVars, run_pc, stop_event, duration_over, buffer,
                   tasks, skipped_spread_gt_30, ticks, flush_caller,
                   finally_steps, appended, fetch_raised, requeued, flush_outcome,
                   loop_raised, schedVars, rankVars,
                   stable_cycles, fallback_active, spot_meta, perp_meta,
                   discover_outcome, storageVars, buffer_lock,
                   retryVars, refreshVars>>

\* lines 751-752: the insert raises
LockInsertRaises ==
    /\ lock_pc = "insert"
    /\ lock_pc' = "insert_raised"
    /\ UNCHANGED <<markets, levelVars, runVars, schedVars, rankVars,
                   stable_cycles, fallback_active, spot_meta, perp_meta,
                   discover_outcome, storageVars, buffer_lock,
                   retryVars, refreshVars>>

SpecLock ==
    InitLevels
    /\ [][\/ \E op \in {"add", "swap", "requeue"} : LockAcquire(op)
          \/ LockedAppend
          \/ LockedSwap
          \/ LockedRequeue
          \/ LockRelease
          \/ LockInsertCommits
          \/ LockInsertRaises]_vars

\* the batch insert is in progress, or has just raised
InsertInProgress == lock_pc \in {"insert", "insert_raised"}

-----------------------------------------------------------------------------
(* Streaks (SpecLevels) *)

\* C35: a market at level A has a promotion streak (promotion counter) of 0.
C35_LevelAHasNoPromotionStreak ==
    \A s \in Symbols : LevelIs(s, {"A"}) => promotion_counters[s] = 0

\* C36: a ranking cycle whose map has no entry for a market (every market,
\* when the map is empty) leaves the promotion counter and the demotion
\* counter of that market as they were.
C36_UnrankedKeepsStreaks ==
    [][\A s \in Symbols :
          UnrankedCycle(s)
          => /\ promotion_counters'[s] = promotion_counters[s]
             /\ demotion_counters'[s] = demotion_counters[s]]_vars

\* a market below A with a promotion streak of 2 was left out of the last
\* ranked cycle and still has its streak
C36_Witness ==
    /\ refresh_outcome = "ranked"
    /\ \E s \in Symbols :
          /\ s \notin DOMAIN rankings
          /\ LevelIs(s, {"B", "C", "D"})
          /\ promotion_counters[s] = 2
          /\ eligible_run[s] = 2

\* C39: a cycle in which the demotion streak of a level-A market reaches 3
\* (it was 2 and the cycle's rank and spread satisfy a demotion condition)
\* leaves the market at B, C or D, with its demotion counter reset: the
\* direct mapping never answers A for a demotable rank and spread.
C39_CommittedDemotionLeavesA ==
    [][\A s \in Symbols :
          (LevelIs(s, {"A"}) /\ RankedCycle(s) /\ demotion_counters[s] = 2
             /\ DemotionCondition(rankings'[s].rank, rankings'[s].spread_bps))
          => /\ LevelAfterIs(s, {"B", "C", "D"})
             /\ demotion_counters'[s] = 0]_vars

\* a market ranked in the top 100 was demoted for its spread alone (25 bps)
\* and sits at B with its demotion counter reset
C39_Witness ==
    /\ refresh_outcome = "ranked"
    /\ \E s \in demotions_this_cycle :
          /\ rankings[s].rank <= 100
          /\ rankings[s].spread_bps = CentiBps(25)
          /\ LevelIs(s, {"B"})
          /\ demotion_counters[s] = 0
          /\ demotable_run[s] = 3

-----------------------------------------------------------------------------
(* Missing metrics and the percentile formula (SpecRank) *)

\* the markets of the ranking whose value is present and satisfies a test
\* against v
MarketsWhere(value(_), test(_)) ==
    { u \in DOMAIN calc_rankings :
        value(MarketRow(u)) # None /\ test(value(MarketRow(u))) }

\* C31: a ranked market whose volume, open interest or spread is missing has
\* percentile 0 for that metric (so the metric contributes exactly 0 to its
\* score), whatever the values of the other markets, and the market has an
\* entry in the ranking.
C31_MissingMetricContributesZero ==
    calc_outcome = "computed" =>
        \A s \in RowSymbols :
            /\ s \in DOMAIN calc_rankings
            /\ VolumeOf(MarketRow(s)) = None => calc_rankings[s].volume_norm.num = 0
            /\ OpenInterestOf(MarketRow(s)) = None => calc_rankings[s].oi_norm.num = 0
            /\ SpreadOf(MarketRow(s)) = None => calc_rankings[s].spread_norm.num = 0

\* the percentile of v in the values of a metric, by the formula of the
\* claim: (count of s < v + half the count of s = v) / |S|, and 0 for no
\* values
MidRankPercentile(v, value(_)) ==
    LET below == MarketsWhere(value, LAMBDA x : x < v)
        equal == MarketsWhere(value, LAMBDA x : x = v)
        n == CountPresent(value)
    IN  IF n = 0 THEN Fraction(0, 1)
        ELSE Fraction(2 * Cardinality(below) + Cardinality(equal), 2 * n)

\* C32: the percentile computed for a value v (0 for a missing one) against
\* the values S of its metric is (count of s < v + half the count of
\* s = v) / |S|, and 0 when S is empty; markets with equal values of a
\* metric have the same percentile.
C32_PercentileIsMidRank ==
    calc_outcome = "computed" =>
        /\ \A s \in DOMAIN calc_rankings :
              /\ calc_rankings[s].volume_norm
                    = MidRankPercentile(OrZero(VolumeOf(MarketRow(s))), VolumeOf)
              /\ calc_rankings[s].oi_norm
                    = MidRankPercentile(OrZero(OpenInterestOf(MarketRow(s))), OpenInterestOf)
              /\ calc_rankings[s].spread_norm
                    = MidRankPercentile(OrZero(SpreadOf(MarketRow(s))), SpreadOf)
        /\ \A s, u \in DOMAIN calc_rankings :
              /\ (VolumeOf(MarketRow(s)) # None
                    /\ VolumeOf(MarketRow(s)) = VolumeOf(MarketRow(u)))
                    => calc_rankings[s].volume_norm = calc_rankings[u].volume_norm
              /\ (OpenInterestOf(MarketRow(s)) # None
                    /\ OpenInterestOf(MarketRow(s)) = OpenInterestOf(MarketRow(u)))
                    => calc_rankings[s].oi_norm = calc_rankings[u].oi_norm
              /\ (SpreadOf(MarketRow(s)) # None
                    /\ SpreadOf(MarketRow(s)) = SpreadOf(MarketRow(u)))
                    => calc_rankings[s].spread_norm = calc_rankings[u].spread_norm

\* three markets have a volume, two of them the same greater one: both have
\* percentile (1 + 2/2) / 3 = 4/6; and a market with no value for a metric
\* nobody has a value for has percentile 0
C32_Witness ==
    /\ calc_outcome = "computed"
    /\ CountPresent(VolumeOf) = 3
    /\ \E s, u \in DOMAIN calc_rankings :
          /\ s # u
          /\ VolumeOf(MarketRow(s)) = 200
          /\ VolumeOf(MarketRow(u)) = 200
          /\ calc_rankings[s].volume_norm = Fraction(4, 6)
          /\ calc_rankings[u].volume_norm = Fraction(4, 6)

-----------------------------------------------------------------------------
(* The cleanup interval (SpecStorage) *)

\* C33: cleanup_old_data attempts no delete when less than the cleanup
\* interval has passed since the last attempt: a retention pass runs only
\* when at least the interval has passed since the previous pass (since
\* construction for the first one), it records its own time, a call inside
\* the interval leaves the table and the time of the last pass alone, and
\* rows leave the table in a retention pass only.
C33_DeletesAtMostOncePerInterval ==
    /\ [](/\ last_cleanup_time <= clock_ms
          /\ (last_cleanup_time = 0 \/ last_cleanup_time >= CleanupMs)
          /\ cleanup_outcome \in {"deleted", "raised"} => last_cleanup_time >= CleanupMs)
    /\ [][/\ RetentionPass
             => /\ clock_ms - last_cleanup_time >= CleanupMs
                /\ last_cleanup_time' = clock_ms
          /\ Len(store') < Len(store) => RetentionPass
          /\ (cleanup_outcome' = "skipped" /\ cleanup_outcome # "skipped")
             => /\ clock_ms - last_cleanup_time < CleanupMs
                /\ store' = store
                /\ last_cleanup_time' = last_cleanup_time]_vars

\* a call 1 ms after a pass was skipped although a row older than the cutoff
\* of that instant is in the table
C33_Witness ==
    /\ cleanup_outcome = "skipped"
    /\ last_cleanup_time = RetentionMs
    /\ clock_ms = RetentionMs + 1
    /\ \E i \in DOMAIN store : store[i].ts_ms < clock_ms - RetentionMs

\* C40: a retention pass whose delete fails has recorded its time all the
\* same and has deleted nothing, the error does not reach the loop, and the
\* next pass after a failed one runs only when a full cleanup interval has
\* passed since the failed one.
C40_FailedDeleteIsNotRetried ==
    /\ [][/\ (cleanup_outcome' = "raised" /\ (cleanup_outcome # "raised" \/ RetentionPass))
             => /\ last_cleanup_time' = clock_ms
                /\ store' = store
                /\ loop_raised' = loop_raised
          /\ (cleanup_outcome = "raised" /\ RetentionPass)
             => clock_ms - last_cleanup_time >= CleanupMs]_vars
    /\ [](cleanup_outcome = "raised"
             => (ENABLED CleanupDeletes \/ ENABLED CleanupRaises)
                   <=> clock_ms - last_cleanup_time >= CleanupMs)

\* the pass run 1 ms past the first day failed: the row of time 0, older than
\* its cutoff, is still in the table, and the time of the last pass is the
\* time of the failed one
C40_Witness ==
    /\ cleanup_outcome = "raised"
    /\ clock_ms = RetentionMs + 1
    /\ last_cleanup_time = clock_ms
    /\ \E i \in DOMAIN store : store[i].ts_ms = 0

-----------------------------------------------------------------------------
(* The export's retry on a locked database: _retry_on_lock of               *)
(* universe_export.py, called with its default max_retries and delays       *)
(* (specification SpecRetry).  One action is one pass of its loop.          *)

MaxRetries == 3

\* the default of the parameter delays, in ms
Delays == <<200, 500, 1000>>

\* what a call of func() does: it returns a value or raises an error with a
\* message
Returns(value) == [kind |-> "ok", payload |-> value]
Raises(message) == [kind |-> "error", payload |-> message]

\* the messages of the errors the export's operations meet
ErrorMessages ==
    { "(sqlite3.OperationalError) database is locked",
      "(sqlite3.OperationalError) no such table: market_samples",
      "[Errno 13] Permission denied: 'exports/LOCKED/raw.csv'",
      "[Errno 28] No space left on device" }

FuncOutcomes ==
    { Returns("rows_a"), Returns("rows_b") } \cup { Raises(m) : m \in ErrorMessages }

\* line 34: str(e).lower()
Lower(message) ==
    CASE message = "(sqlite3.OperationalError) database is locked"
            -> "(sqlite3.operationalerror) database is locked"
      [] message = "(sqlite3.OperationalError) no such table: market_samples"
            -> "(sqlite3.operationalerror) no such table: market_samples"
      [] message = "[Errno 13] Permission denied: 'exports/LOCKED/raw.csv'"
            -> "[errno 13] permission denied: 'exports/locked/raw.csv'"
      [] message = "[Errno 28] No space left on device"
            -> "[errno 28] no space left on device"

\* a retry after every error
IsAnyError(error_str) == TRUE

\* line 35: "locked" in error_str or "database is locked" in error_str
IsLockError(error_str) ==
    error_str \in { "(sqlite3.operationalerror) database is locked",
                    "[errno 13] permission denied: 'exports/locked/raw.csv'" }

InitRetry ==
    /\ markets = Catalog
    /\ LevelsIdle
    /\ RunIdle
    /\ clock_ms = 0
    /\ due_markets = << >>
    /\ latest_samples = << >>
    /\ calc_rankings = EmptyDict
    /\ calc_outcome = "none"
    /\ stable_cycles = 0
    /\ fallback_active = "none"
    /\ spot_meta = NoMeta
    /\ perp_meta = NoMeta
    /\ discover_outcome = "none"
    /\ StorageIdle
    /\ buffer_lock = "free"
    /\ lock_pc = "idle"
    /\ func_outcomes \in [1..MaxRetries -> FuncOutcomes]
    /\ attempt = 0
    /\ calls = 0
    /\ slept = << >>
    /\ retry_outcome = "running"
    /\ retry_result = NoResult
    /\ last_ranking_time = 0
    /\ refresh_times = << >>

\* lines 30-32: func() returns, and _retry_on_lock returns its value
CallReturns ==
    /\ retry_outcome = "running"
    /\ attempt < MaxRetries
    /\ func_outcomes[calls + 1].kind = "ok"
    /\ calls' = calls + 1
    /\ retry_outcome' = "returned"
    /\ retry_result' = func_outcomes[calls + 1]
    /\ UNCHANGED <<markets, levelVars, runVars, schedVars, rankVars,
                   stable_cycles, fallback_active, spot_meta, perp_meta,
                   discover_outcome, storageVars, buffer_lock, lock_pc,
                   func_outcomes, attempt, slept, refreshVars>>

\* lines 33-45: a lock error before the last attempt: sleep, then go on
CallLockedSleeps ==
    /\ retry_outcome = "running"
    /\ attempt < MaxRetries
    /\ func_outcomes[calls + 1].kind = "error"
    /\ IsLockError(Lower(func_outcomes[calls + 1].payload))
    /\ attempt < MaxRetries - 1
    /\ calls' = calls + 1
    /\ slept' = Append(slept, Delays[(IF attempt < Len(Delays) - 1 THEN attempt ELSE Len(Delays) - 1) + 1])
    /\ attempt' = attempt + 1
    /\ UNCHANGED <<markets, levelVars, runVars, schedVars, rankVars,
                   stable_cycles, fallback_active, spot_meta, perp_meta,
                   discover_outcome, storageVars, buffer_lock, lock_pc,
                   func_outcomes, retry_outcome, retry_result, refreshVars>>

\* lines 46-48: a lock error at the last attempt is raised again
CallLockedRaises ==
    /\ retry_outcome = "running"
    /\ attempt < MaxRetries
    /\ func_outcomes[calls + 1].kind = "error"
    /\ IsLockError(Lower(func_outcomes[calls + 1].payload))
    /\ ~(attempt < MaxRetries - 1)
    /\ calls' = calls + 1
    /\ retry_outcome' = "raised"
    /\ retry_result' = func_outcomes[calls + 1]
    /\ UNCHANGED <<markets, levelVars, runVars, schedVars, rankVars,
                   stable_cycles, fallback_active, spot_meta, perp_meta,
                   discover_outcome, storageVars, buffer_lock, lock_pc,
                   func_outcomes, attempt, slept, refreshVars>>

\* lines 49-50: any other error is raised again
CallOtherRaises ==
    /\ retry_outcome = "running"
    /\ attempt < MaxRetries
    /\ func_outcomes[calls + 1].kind = "error"
    /\ ~IsLockError(Lower(func_outcomes[calls + 1].payload))
    /\ calls' = calls + 1
    /\ retry_outcome' = "raised"
    /\ retry_result' = func_outcomes[calls + 1]
    /\ UNCHANGED <<markets, levelVars, runVars, schedVars, rankVars,
                   stable_cycles, fallback_active, spot_meta, perp_meta,
                   discover_outcome, storageVars, buffer_lock, lock_pc,
                   func_outcomes, attempt, slept, refreshVars>>

SpecRetry ==
    InitRetry
    /\ [][\/ CallReturns
          \/ CallLockedSleeps
          \/ CallLockedRaises
          \/ CallOtherRaises]_vars

\* the error messages that contain "locked", in whatever letter case
MessagesWithLocked ==
    { "(sqlite3.OperationalError) database is locked",
      "[Errno 13] Permission denied: 'exports/LOCKED/raw.csv'" }

\* the call of that number raised an error whose message contains "locked"
FailedOnLock(k) ==
    /\ func_outcomes[k].kind = "error"
    /\ func_outcomes[k].payload \in MessagesWithLocked

\* C34: _retry_on_lock calls the operation at most 3 times; a further call
\* follows only a call that failed with a message containing "locked"; it
\* returns the value of the first call that succeeds; an error of another
\* kind is raised again at once, and the lock error of the 3rd call is raised
\* again; once it has returned or raised it calls no more.
C34_RetryOnLockOnly ==
    /\ [](/\ calls <= MaxRetries
          /\ \A k \in 1..calls : (k < calls => FailedOnLock(k))
          /\ retry_outcome = "running" => \A k \in 1..calls : FailedOnLock(k)
          /\ retry_outcome = "returned"
                => /\ calls >= 1
                   /\ func_outcomes[calls].kind = "ok"
                   /\ retry_result = func_outcomes[calls]
          /\ retry_outcome = "raised"
                => /\ calls >= 1
                   /\ func_outcomes[calls].kind = "error"
                   /\ retry_result = func_outcomes[calls]
                   /\ FailedOnLock(calls) => calls = MaxRetries
          /\ Len(slept) = (IF retry_outcome = "running" THEN calls ELSE calls - 1)
          /\ \A k \in DOMAIN slept : slept[k] = Delays[k])
    /\ [][/\ calls' \in {calls, calls + 1}
          /\ retry_outcome # "running" => calls' = calls]_vars

\* two calls met the lock and the third returned: its value is the result
C34_Witness ==
    /\ retry_outcome = "returned"
    /\ calls = MaxRetries
    /\ FailedOnLock(1)
    /\ FailedOnLock(2)
    /\ slept = <<200, 500>>
    /\ retry_result = Returns("rows_b")

-----------------------------------------------------------------------------
(* The refresh gate of run() under a clock (specification SpecRefresh): the *)
(* startup refresh of line 879 and, in each tick, the clock reading and the *)
(* test of lines 893-895.  time.time() counts from the epoch, and           *)
(* last_ranking_time is 0.0 at construction (line 141).                     *)

\* the clock when run() begins, in ms: a stand-in for today's epoch time,
\* which is larger still
EpochAtStartMs == 1000000000

\* the most ticks of a run of the model
MaxRefreshTicks == 4

\* line 869: ranking_refresh_sec or 60.0
RankingRefreshMs == 60 * 1000

\* the time from one tick's clock reading to the next
RefreshTickDurations == {50, 59950, 60000}

\* how long a _refresh_rankings call takes
RefreshDurations == {0, 1000}

\* line 893: time.time() - self.last_ranking_time >= self.ranking_refresh_sec
RefreshIsDue(now, last) == now - last >= RankingRefreshMs

InitRefresh ==
    /\ markets = Catalog
    /\ LevelsIdle
    /\ RunIdle
    /\ clock_ms = EpochAtStartMs
    /\ due_markets = << >>
    /\ latest_samples = << >>
    /\ calc_rankings = EmptyDict
    /\ calc_outcome = "none"
    /\ stable_cycles = 0
    /\ fallback_active = "none"
    /\ spot_meta = NoMeta
    /\ perp_meta = NoMeta
    /\ discover_outcome = "none"
    /\ StorageIdle
    /\ buffer_lock = "free"
    /\ lock_pc = "idle"
    /\ RetryIdle
    /\ last_ranking_time = 0
    /\ refresh_times = << >>

\* line 879: the refresh at startup; last_ranking_time is not written
RefreshAtStartup ==
    /\ run_pc = "idle"
    /\ \E rk \in SchedRankingInputs : RefreshRankings(rk)
    /\ refresh_times' = Append(refresh_times, clock_ms)
    /\ \E d \in RefreshDurations : clock_ms' = clock_ms + d
    /\ run_pc' = "loop"
    /\ UNCHANGED <<markets, stop_event, duration_over, buffer, batch, store, tasks,
                   skipped_spread_gt_30, ticks, flush_caller, finally_steps,
                   appended, fetch_raised, requeued, flush_outcome, loop_raised,
                   due_markets, rankVars,
                   stable_cycles, fallback_active, spot_meta, perp_meta,
                   discover_outcome, storageVars, buffer_lock, lock_pc,
                   retryVars, last_ranking_time>>

\* lines 885-890: the next tick begins and reads the clock
RefreshReadClock ==
    /\ run_pc = "loop"
    /\ ticks < MaxRefreshTicks
    /\ ticks' = ticks + 1
    /\ \E d \in RefreshTickDurations : clock_ms' = clock_ms + d
    /\ run_pc' = "refresh"
    /\ UNCHANGED <<markets, levelVars, stop_event, duration_over, buffer, batch, store, tasks,
                   skipped_spread_gt_30, flush_caller, finally_steps,
                   appended, fetch_raised, requeued, flush_outcome, loop_raised,
                   due_markets, rankVars,
                   stable_cycles, fallback_active, spot_meta, perp_meta,
                   discover_outcome, storageVars, buffer_lock, lock_pc,
                   retryVars, refreshVars>>

\* lines 893-895: the refresh is due; it runs, and the clock is read again
RefreshInTick ==
    /\ run_pc = "refresh"
    /\ RefreshIsDue(clock_ms, last_ranking_time)
    /\ \E rk \in SchedRankingInputs : RefreshRankings(rk)
    /\ refresh_times' = Append(refresh_times, clock_ms)
    /\ \E d \in RefreshDurations :
          /\ clock_ms' = clock_ms + d
          /\ last_ranking_time' = clock_ms + d
    /\ run_pc' = "loop"
    /\ UNCHANGED <<markets, stop_event, duration_over, buffer, batch, store, tasks,
                   skipped_spread_gt_30, ticks, flush_caller, finally_steps,
                   appended, fetch_raised, requeued, flush_outcome, loop_raised,
                   due_markets, rankVars,
                   stable_cycles, fallback_active, spot_meta, perp_meta,
                   discover_outcome, storageVars, buffer_lock, lock_pc,
                   retryVars>>

\* line 893: the refresh is not due
RefreshNotInTick ==
    /\ run_pc = "refresh"
    /\ ~RefreshIsDue(clock_ms, last_ranking_time)
    /\ run_pc' = "loop"
    /\ UNCHANGED <<markets, levelVars, stop_event, duration_over, buffer, batch, store, tasks,
                   skipped_spread_gt_30, ticks, flush_caller, finally_steps,
                   appended, fetch_raised, requeued, flush_outcome, loop_raised,
                   schedVars, rankVars,
                   stable_cycles, fallback_active, spot_meta, perp_meta,
                   discover_outcome, storageVars, buffer_lock, lock_pc,
                   retryVars, refreshVars>>

SpecRefresh ==
    InitRefresh
    /\ [][\/ RefreshAtStartup
          \/ RefreshReadClock
          \/ RefreshInTick
          \/ RefreshNotInTick]_vars

\* C37: two consecutive ranking refreshes of a run, the startup refresh
\* included, are at least ranking_refresh_sec apart.
C37_RefreshesAreSeparated ==
    \A k \in 2..Len(refresh_times) :
        refresh_times[k] - refresh_times[k - 1] >= RankingRefreshMs

-----------------------------------------------------------------------------
(* Markets without a Schedule (SpecSched) *)

\* C38: a selection takes every catalog market that has no Schedule and
\* creates no Schedule for it; as long as no refresh has produced a
\* non-empty ranking no market has a Schedule, and every selection takes
\* the whole catalog, whatever time has passed since the previous one.
C38_UnscheduledAlwaysSelected ==
    /\ [](rankings = EmptyDict => schedules = EmptyDict)
    /\ [][SelectionStep =>
            /\ \A i \in 1..Len(markets) :
                  markets[i].symbol_raw \notin DOMAIN schedules
                  => /\ \E k \in DOMAIN due_markets' : due_markets'[k] = i
                     /\ markets[i].symbol_raw \notin DOMAIN schedules'
            /\ rankings = EmptyDict
                  => due_markets' = [i \in 1..Len(markets) |-> i]]_vars

\* the second tick, 50 ms after the first and after an empty refresh, has
\* selected both markets again, and neither has a Schedule
C38_Witness ==
    /\ run_pc = "loop"
    /\ clock_ms = 100
    /\ refresh_outcome = "empty"
    /\ rankings = EmptyDict
    /\ schedules = EmptyDict
    /\ due_markets = <<1, 2>>

====
